---- MODULE Spec2Model ----
(***************************************************************************)
(* A model of the Desktop MCP core: the Tool Registry (tools/base_tool.py),*)
(* the Plugin Loader (core/plugin_manager.py) and the Command Resolver     *)
(* (core/command_parser.py).                                               *)
(***************************************************************************)
EXTENDS Integers, Sequences, FiniteSets, TLC

VARIABLES
    tools,           \* ToolRegistry.tools: name -> tool instance
    tool_order,      \* the keys of ToolRegistry.tools in the dict's order
    categories,      \* ToolRegistry.categories: category -> list of names
    loaded_modules,  \* PluginManager.loaded_modules: str(path) -> module name
    serial,          \* number of tool instances created so far (object identity)
    last,            \* outcome of the latest operation (its locals and result)
    command_history, \* CommandParser.command_history
    remembered,      \* number of remember_command calls so far
    patterns,        \* CommandParser.patterns, the Pattern Table
    FUZZY_AVAILABLE, \* whether the import of fuzzywuzzy succeeded
    app              \* DesktopMCPApp: running, command_queue, execution_history,
                     \* and where its command processing task stands

vars == <<tools, tool_order, categories, loaded_modules, serial, last,
          command_history, remembered, patterns, FUZZY_AVAILABLE, app>>

registryVars == <<tools, tool_order, categories, loaded_modules, serial>>
parserVars == <<command_history, remembered, patterns, FUZZY_AVAILABLE>>

----------------------------------------------------------------------------
(* Bounds of the model.                                                    *)

\* Tool instances created in one behaviour.
MaxInstances == 3
\* How many resolved commands are remembered where the resolver is called again
MaxReuse == 1
\* Commands queued in one behaviour.
MaxQueued == 2

----------------------------------------------------------------------------
(* Tool classes that source units and callers can define.                  *)

ClassTable ==
    [ Scan       |-> [name |-> "scan", category |-> "utilities", raises |-> FALSE,
                      description |-> "scan the disk", keywords |-> <<"scanner">>,
                      parameters |-> <<>>],
      ScanCustom |-> [name |-> "scan", category |-> "custom", raises |-> FALSE,
                      description |-> "scan a page", keywords |-> <<>>,
                      parameters |-> <<>>],
      Zip        |-> [name |-> "zip", category |-> "utilities", raises |-> FALSE,
                      description |-> "Compress files into an archive",
                      keywords |-> <<"archive", "compress">>,
                      parameters |-> <<"file_path", "count">>],
      Calculator |-> [name |-> "calculator", category |-> "utilities", raises |-> FALSE,
                      description |-> "a desk calculator", keywords |-> <<"calc">>,
                      parameters |-> <<>>],
      Pack       |-> [name |-> "pack", category |-> "utilities", raises |-> FALSE,
                      description |-> "pack files", keywords |-> <<"bundle">>,
                      parameters |-> <<"file_count", "count">>],
      Broken     |-> [name |-> "bad", category |-> "custom", raises |-> TRUE,
                      description |-> "", keywords |-> <<>>, parameters |-> <<>>] ]

ToolClasses == DOMAIN ClassTable

\* The classes a caller instantiates and registers itself
CallerClasses == {"Scan", "ScanCustom"}
\* The classes registered where commands are resolved
ResolverClasses == {"Calculator", "Zip"}

\* tool.metadata of an instance; parameters holds the names of the
\* ToolParameter entries
metadata(inst) == ClassTable[inst.cls]
MetaName(inst) == metadata(inst).name
MetaCategory(inst) == metadata(inst).category

\* What a source file can hold when it is loaded: "malformed" (exec_module
\* raises), "missing" (the file is not there), or the BaseTool subclasses it
\* defines, in the order inspect.getmembers yields them (sorted by name).
\* The first two are written as one-element sequences holding a marker.
Malformed == <<"#malformed">>
Missing == <<"#missing">>
Contents ==
    { <<"Scan">>, <<"Broken", "Zip">>, Malformed }

\* Source units: a file of the tools directory, and a plugin directory whose
\* main file has the same stem.
ToolFiles == {"tools/scan.py"}
PluginDir == "plugins/p"
PluginMain == "plugins/p/scan.py"
SourceFiles == ToolFiles \cup {PluginMain}
\* file_path.stem
Stem(path) == "scan"
\* Values id(file_path) can take: an address is reused once a Path object is
\* freed, so two loads can see the same one.
Ids == {"0x7f01", "0x7f02"}

----------------------------------------------------------------------------
(* ToolRegistry                                                            *)

EmptyMap == [x \in {} |-> {}]

\* A register that keeps the first registration of a name and ignores the
\* later ones (what C5 rules out)
register_keep_first(reg, tool) ==
    IF MetaName(tool) \in DOMAIN reg.tools THEN reg
    ELSE LET name == MetaName(tool)
             category == MetaCategory(tool)
         IN [tools |-> [n \in DOMAIN reg.tools \cup {name} |->
                           IF n = name THEN tool ELSE reg.tools[n]],
             order |-> Append(reg.order, name),
             categories |-> [c \in DOMAIN reg.categories \cup {category} |->
                           IF c = category
                           THEN (IF c \in DOMAIN reg.categories
                                 THEN reg.categories[c] ELSE <<>>) \o <<name>>
                           ELSE reg.categories[c]]]

\* ToolRegistry.register(tool) on reg = [tools, order, categories]; a dict
\* keeps a key that is assigned again at the place it has.
register(reg, tool) ==
    LET name == MetaName(tool)
        newTools == [n \in DOMAIN reg.tools \cup {name} |->
                        IF n = name THEN tool ELSE reg.tools[n]]
        category == MetaCategory(tool)
        withKey == [c \in DOMAIN reg.categories \cup {category} |->
                        IF c \in DOMAIN reg.categories
                        THEN reg.categories[c] ELSE <<>>]
        present == \E i \in 1..Len(withKey[category]) : withKey[category][i] = name
        newCats == IF present THEN withKey
                   ELSE [withKey EXCEPT ![category] = Append(@, name)]
        newOrder == IF name \in DOMAIN reg.tools THEN reg.order
                    ELSE Append(reg.order, name)
    IN [tools |-> newTools, order |-> newOrder, categories |-> newCats]

\* Python's None, where the other values of the slot are records
None == [none |-> TRUE]

\* ToolRegistry.get_tool(name)
get_tool(reg, name) ==
    IF name \in DOMAIN reg.tools THEN reg.tools[name] ELSE None

RECURSIVE tools_of_names(_, _)
tools_of_names(reg, names) ==
    IF names = <<>> THEN <<>>
    ELSE (IF Head(names) \in DOMAIN reg.tools
          THEN <<reg.tools[Head(names)]>> ELSE <<>>)
         \o tools_of_names(reg, Tail(names))

\* ToolRegistry.get_tools_by_category(category)
get_tools_by_category(reg, category) ==
    tools_of_names(reg, IF category \in DOMAIN reg.categories
                        THEN reg.categories[category] ELSE <<>>)

Registry == [tools |-> tools, order |-> tool_order, categories |-> categories]

SeqToSet(s) == {s[i] : i \in 1..Len(s)}

----------------------------------------------------------------------------
(* PluginManager                                                           *)

Put(f, k, v) == [x \in DOMAIN f \cup {k} |-> IF x = k THEN v ELSE f[x]]
Drop(f, ks) == [x \in DOMAIN f \ ks |-> f[x]]

\* module_name = f"desktop_mcp_plugin_{file_path.stem}_{id(file_path)}"
module_name(path, id) == <<Stem(path), id>>

\* A loop over the classes that leaves a class out when its name is
\* registered already
RECURSIVE load_classes_unless_registered(_, _, _, _)
load_classes_unless_registered(st, classes, path, mod) ==
    IF classes = <<>> THEN st
    ELSE IF ClassTable[Head(classes)].raises
            \/ ClassTable[Head(classes)].name \in DOMAIN st.reg.tools
    THEN load_classes_unless_registered(st, Tail(classes), path, mod)
    ELSE load_classes_unless_registered(
             [st EXCEPT !.reg = register(@, [cls |-> Head(classes), module |-> mod,
                                             unit |-> path, serial |-> st.serial + 1]),
                        !.serial = @ + 1,
                        !.tools_loaded = Append(@, ClassTable[Head(classes)].name)],
             Tail(classes), path, mod)

\* A loop over the classes that ends at the first constructor that raises
RECURSIVE load_classes_until_failure(_, _, _, _)
load_classes_until_failure(st, classes, path, mod) ==
    IF classes = <<>> \/ ClassTable[Head(classes)].raises THEN st
    ELSE load_classes_until_failure(
             [st EXCEPT !.reg = register(@, [cls |-> Head(classes), module |-> mod,
                                             unit |-> path, serial |-> st.serial + 1]),
                        !.serial = @ + 1,
                        !.tools_loaded = Append(@, ClassTable[Head(classes)].name)],
             Tail(classes), path, mod)

\* The loop over inspect.getmembers(module): instantiate each tool class and
\* register it; a constructor that raises is logged and skipped.
RECURSIVE load_classes(_, _, _, _)
load_classes(st, classes, path, mod) ==
    IF classes = <<>> THEN st
    ELSE LET cls == Head(classes)
         IN IF ClassTable[cls].raises
            THEN load_classes(st, Tail(classes), path, mod)
            ELSE LET tool_instance == [cls |-> cls, module |-> mod,
                                       unit |-> path, serial |-> st.serial + 1]
                 IN load_classes(
                        [st EXCEPT !.reg = register(@, tool_instance),
                                   !.serial = @ + 1,
                                   !.tools_loaded = Append(@, MetaName(tool_instance))],
                        Tail(classes), path, mod)

\* PluginManager._load_tools_from_file(file_path); st.raised tells whether it
\* raised, st.tools_loaded is what it returned.
load_tools_from_file(st, path, content, id) ==
    IF content \in {Malformed, Missing}
    THEN [st EXCEPT !.raised = TRUE, !.tools_loaded = <<>>]
    ELSE LET mod == module_name(path, id)
             st1 == [st EXCEPT !.loaded_modules = Put(@, path, mod),
                               !.tools_loaded = <<>>,
                               !.raised = FALSE]
         IN load_classes(st1, content, path, mod)

\* plugin_info once the main file was tried: None where the load raised
\* (reload_plugin sees the exception as st.raised) or found no tool
plugin_info_after(st1) ==
    IF st1.raised THEN [st1 EXCEPT !.plugin_info = None]
    ELSE [st1 EXCEPT !.plugin_info =
             IF Len(st1.tools_loaded) > 0
             THEN [tools_count |-> Len(st1.tools_loaded)] ELSE None]

\* PluginManager._load_plugin_from_directory(plugin_dir): the main file is
\* looked up and loaded; st.plugin_info is None or the tools count.
load_plugin_from_directory(st, content, id) ==
    IF content = Missing
    THEN [st EXCEPT !.raised = FALSE, !.tools_loaded = <<>>, !.plugin_info = None]
    ELSE plugin_info_after(load_tools_from_file(st, PluginMain, content, id))

\* The names reload_plugin collects in tools_to_remove
tools_to_remove(st, path) ==
    IF path \in DOMAIN st.loaded_modules
    THEN {n \in DOMAIN st.reg.tools :
              st.reg.tools[n].module = st.loaded_modules[path]}
    ELSE {}

\* The sequence names without the names in removed
RECURSIVE without(_, _)
without(names, removed) ==
    IF names = <<>> THEN <<>>
    ELSE (IF Head(names) \in removed THEN <<>> ELSE <<Head(names)>>)
           \o without(Tail(names), removed)

\* The first half of reload_plugin: the old tools leave registry.tools and
\* the module leaves loaded_modules.
remove_old_tools(st, path) ==
    IF path \in DOMAIN st.loaded_modules
    THEN [st EXCEPT !.reg.tools = Drop(@, tools_to_remove(st, path)),
                    !.reg.order = without(@, tools_to_remove(st, path)),
                    !.loaded_modules = Drop(@, {path})]
    ELSE st

\* The second half of reload_plugin: the unit is loaded again
reload_load(st1, path, content, id) ==
    IF path = PluginDir
    THEN load_plugin_from_directory(st1, content, id)
    ELSE IF content = Missing
         THEN [st1 EXCEPT !.raised = TRUE, !.tools_loaded = <<>>]
         ELSE load_tools_from_file(st1, path, content, id)

\* The dict reload_plugin returns
reload_result(st2, path) ==
    [st2 EXCEPT !.result =
        IF st2.raised
        THEN [success |-> FALSE, tools_reloaded |-> 0, error |-> [message |-> "Failed to reload plugin"]]
        ELSE [success |-> TRUE,
              tools_reloaded |-> IF path = PluginDir
                                 THEN (IF st2.plugin_info = None THEN 0
                                       ELSE st2.plugin_info.tools_count)
                                 ELSE Len(st2.tools_loaded),
              error |-> None]]

\* PluginManager.reload_plugin(plugin_path); the result dict is st.result.
reload_plugin(st, path, content, id) ==
    reload_result(reload_load(remove_old_tools(st, path), path, content, id), path)

\* The file the walk of the tools directory finds
py_file == CHOOSE f \in ToolFiles : TRUE

\* The results dict of _load_tools_from_directory once the file was tried
tools_dir_result(st1) ==
    IF st1.raised
    THEN [st1 EXCEPT !.dir_result =
             [loaded |-> 0, tools |-> <<>>,
              errors |-> <<"Failed to load tools from " \o py_file>>]]
    ELSE [st1 EXCEPT !.dir_result =
             [loaded |-> Len(st1.tools_loaded), tools |-> st1.tools_loaded,
              errors |-> <<>>]]

\* PluginManager._load_tools_from_directory(self.tools_dir): every file found
\* is loaded; a load that raises adds a message to the errors.
load_tools_from_directory(st, content) ==
    IF content.body = Missing
    THEN [st EXCEPT !.dir_result = [loaded |-> 0, tools |-> <<>>, errors |-> <<>>]]
    ELSE tools_dir_result(load_tools_from_file(st, py_file, content.body, content.id))

\* The results dict of _load_plugins_from_directory once the plugin was tried
plugins_dir_result(st1) ==
    IF st1.raised
    THEN [st1 EXCEPT !.dir_result =
             [loaded |-> 0, plugins |-> <<>>,
              errors |-> <<"Failed to load plugin from " \o PluginDir>>]]
    ELSE IF st1.plugin_info = None
    THEN [st1 EXCEPT !.dir_result =
             [loaded |-> 0, plugins |-> <<>>, errors |-> <<>>]]
    ELSE [st1 EXCEPT !.dir_result =
             [loaded |-> st1.plugin_info.tools_count,
              plugins |-> <<PluginDir>>, errors |-> <<>>]]

\* PluginManager._load_plugins_from_directory(self.plugins_dir)
load_plugins_from_directory(st, content) ==
    plugins_dir_result(load_plugin_from_directory(st, content.body, content.id))

\* The results dict of discover_and_load_all
discover_results(tools_result, st2) ==
    [st2 EXCEPT !.result =
        [tools_loaded |-> tools_result.loaded,
         plugins_loaded |-> st2.dir_result.loaded,
         errors |-> tools_result.errors \o st2.dir_result.errors,
         tools |-> tools_result.tools,
         plugins |-> st2.dir_result.plugins]]

\* The plugins directory is walked after the tools directory
discover_plugins(st1, plugin_content) ==
    discover_results(st1.dir_result, load_plugins_from_directory(st1, plugin_content))

\* PluginManager.discover_and_load_all(); the results dict is st.result.
discover_and_load_all(st, tool_content, plugin_content) ==
    discover_plugins(load_tools_from_directory(st, tool_content), plugin_content)

\* The loader's state as the operators above thread it
LoaderState ==
    [reg |-> Registry, loaded_modules |-> loaded_modules, serial |-> serial,
     tools_loaded |-> <<>>, raised |-> FALSE,
     plugin_info |-> None, dir_result |-> None, result |-> None]

\* Tool instances a load of `content` creates
Creates(content) ==
    IF content \in {Malformed, Missing} THEN 0
    ELSE Cardinality({i \in 1..Len(content) : ~ClassTable[content[i]].raises})

----------------------------------------------------------------------------
(* Strings, as Python's str methods and the re module treat them           *)

Char(s, i) == SubSeq(s, i, i)
\* s[lo:hi] of Python, with 0-based lo and exclusive hi
Slice(s, lo, hi) == SubSeq(s, lo + 1, hi)

LowerLetters == "abcdefghijklmnopqrstuvwxyz"
UpperLetters == "ABCDEFGHIJKLMNOPQRSTUVWXYZ"
DigitChars == "0123456789"

InString(c, chars) == \E i \in 1..Len(chars) : Char(chars, i) = c
IsLetter(c) == InString(c, LowerLetters) \/ InString(c, UpperLetters)
IsDigit(c) == InString(c, DigitChars)
\* \s of the re module, over the characters the model's inputs use
IsSpace(c) == c = " "
\* \w of the re module
IsWord(c) == IsLetter(c) \/ IsDigit(c) \/ c = "_"

lower_char(c) ==
    IF InString(c, UpperLetters)
    THEN Char(LowerLetters, CHOOSE i \in 1..Len(UpperLetters) : Char(UpperLetters, i) = c)
    ELSE c

\* str.lower()
RECURSIVE lower(_)
lower(s) == IF s = "" THEN "" ELSE lower_char(Char(s, 1)) \o lower(SubSeq(s, 2, Len(s)))

\* str.strip()
RECURSIVE strip(_)
strip(s) ==
    IF s = "" THEN ""
    ELSE IF IsSpace(Char(s, 1)) THEN strip(SubSeq(s, 2, Len(s)))
    ELSE IF IsSpace(Char(s, Len(s))) THEN strip(SubSeq(s, 1, Len(s) - 1))
    ELSE s

\* sub in s
Contains(s, sub) ==
    \E i \in 0..(Len(s) - Len(sub)) : Slice(s, i, i + Len(sub)) = sub

Max(S) == CHOOSE x \in S : \A y \in S : y <= x
Min(S) == CHOOSE x \in S : \A y \in S : x <= y

----------------------------------------------------------------------------
(* fuzzywuzzy over difflib.SequenceMatcher, the matcher it falls back to    *)

\* Length of the common run of a[i:ahi] and b[j:bhi]
RECURSIVE common_len(_, _, _, _, _, _)
common_len(a, i, ahi, b, j, bhi) ==
    IF i < ahi /\ j < bhi /\ Char(a, i + 1) = Char(b, j + 1)
    THEN 1 + common_len(a, i + 1, ahi, b, j + 1, bhi)
    ELSE 0

\* SequenceMatcher.find_longest_match(alo, ahi, blo, bhi): the longest
\* block, the earliest in a, and of those the earliest in b
find_longest_match(a, alo, ahi, b, blo, bhi) ==
    LET cands == (alo..(ahi - 1)) \X (blo..(bhi - 1))
        k == [p \in cands |-> common_len(a, p[1], ahi, b, p[2], bhi)]
        best == IF cands = {} THEN 0 ELSE Max({k[p] : p \in cands})
    IN IF best = 0 THEN <<alo, blo, 0>>
       ELSE LET i == Min({p[1] : p \in {q \in cands : k[q] = best}})
                j == Min({p[2] : p \in {q \in cands : k[q] = best /\ q[1] = i}})
            IN <<i, j, best>>

RECURSIVE matching_blocks(_, _, _, _, _, _)
\* The longest block m with the blocks to its left and to its right
blocks_around(m, a, alo, ahi, b, blo, bhi) ==
    IF m[3] = 0 THEN {}
    ELSE {m}
         \cup (IF alo < m[1] /\ blo < m[2]
               THEN matching_blocks(a, alo, m[1], b, blo, m[2]) ELSE {})
         \cup (IF m[1] + m[3] < ahi /\ m[2] + m[3] < bhi
               THEN matching_blocks(a, m[1] + m[3], ahi, b, m[2] + m[3], bhi)
               ELSE {})

\* SequenceMatcher.get_matching_blocks(), without the closing (la, lb, 0)
matching_blocks(a, alo, ahi, b, blo, bhi) ==
    blocks_around(find_longest_match(a, alo, ahi, b, blo, bhi),
                  a, alo, ahi, b, blo, bhi)

RECURSIVE sum_sizes(_)
sum_sizes(blocks) ==
    IF blocks = {} THEN 0
    ELSE LET m == CHOOSE x \in blocks : TRUE
         IN m[3] + sum_sizes(blocks \ {m})

\* int(round(100 * num / den)), rounding halves to even as Python does
intr_percent(num, den) ==
    LET q == (100 * num) \div den
        r == (100 * num) % den
    IN IF 2 * r > den THEN q + 1
       ELSE IF 2 * r < den THEN q
       ELSE IF q % 2 = 0 THEN q ELSE q + 1

\* 100 * SequenceMatcher(None, a, b).ratio(), rounded
matcher_percent(a, b) ==
    IF Len(a) + Len(b) = 0 THEN 100
    ELSE intr_percent(2 * sum_sizes(matching_blocks(a, 0, Len(a), b, 0, Len(b))),
                      Len(a) + Len(b))

\* fuzz.ratio(s1, s2)
fuzz_ratio(s1, s2) ==
    IF s1 = s2 THEN 100
    ELSE IF s1 = "" \/ s2 = "" THEN 0
    ELSE matcher_percent(s1, s2)

\* The best ratio of shorter against the windows of longer that the matching
\* blocks line up
best_window(shorter, longer) ==
    LET long_start(block) == IF block[2] - block[1] > 0
                             THEN block[2] - block[1] ELSE 0
        long_substr(block) ==
            Slice(longer, long_start(block),
                  Min({Len(longer), long_start(block) + Len(shorter)}))
    IN Max({matcher_percent(shorter, long_substr(block)) :
               block \in matching_blocks(shorter, 0, Len(shorter), longer, 0, Len(longer))
                            \cup {<<Len(shorter), Len(longer), 0>>}})

\* fuzz.partial_ratio(s1, s2): the best ratio of the shorter string against
\* the windows of the longer one that the matching blocks line up
fuzz_partial_ratio(s1, s2) ==
    IF s1 = s2 THEN 100
    ELSE IF s1 = "" \/ s2 = "" THEN 0
    ELSE IF Len(s1) <= Len(s2) THEN best_window(s1, s2)
    ELSE best_window(s2, s1)

----------------------------------------------------------------------------
(* CommandParser: the Pattern Table and the history                        *)

\* CommandParser._load_builtin_patterns
builtin_patterns ==
    << [pattern |-> "open {app}", intent |-> "application", action |-> "launch",
        tool_name |-> "open_application",
        parameter_mapping |-> <<[entity |-> "app", param |-> "app_name"]>>,
        examples |-> <<"open blender", "open chrome", "open vscode">>],
       [pattern |-> "start {app}", intent |-> "application", action |-> "launch",
        tool_name |-> "open_application",
        parameter_mapping |-> <<[entity |-> "app", param |-> "app_name"]>>,
        examples |-> <<"start blender", "start browser">>],
       [pattern |-> "copy {file} to {path}", intent |-> "file", action |-> "copy",
        tool_name |-> "copy_files",
        parameter_mapping |-> <<[entity |-> "file", param |-> "source_path"],
                                [entity |-> "path", param |-> "destination_path"]>>,
        examples |-> <<"copy document.txt to backup folder">>],
       [pattern |-> "move {file} to {path}", intent |-> "file", action |-> "move",
        tool_name |-> "move_files",
        parameter_mapping |-> <<[entity |-> "file", param |-> "source_path"],
                                [entity |-> "path", param |-> "destination_path"]>>,
        examples |-> <<"move photos to pictures folder">>],
       [pattern |-> "take screenshot", intent |-> "system", action |-> "screenshot",
        tool_name |-> "take_screenshot",
        parameter_mapping |-> <<>>,
        examples |-> <<"take screenshot", "capture screen">>],
       [pattern |-> "check system", intent |-> "system", action |-> "monitor",
        tool_name |-> "get_system_information",
        parameter_mapping |-> <<>>,
        examples |-> <<"check system status", "monitor system">>],
       [pattern |-> "search for {text}", intent |-> "web", action |-> "search",
        tool_name |-> "search_web",
        parameter_mapping |-> <<[entity |-> "text", param |-> "query"]>>,
        examples |-> <<"search for python tutorials">>],
       [pattern |-> "browse {text}", intent |-> "web", action |-> "navigate",
        tool_name |-> "navigate_to_website",
        parameter_mapping |-> <<[entity |-> "text", param |-> "url"]>>,
        examples |-> <<"browse github.com">>] >>

\* len(self.command_history) > 100
HistoryCap == 100
\* self.command_history[-50:]
HistoryKeep == 50

\* remember_command calls in one behaviour
MaxRemember == 155

\* A remember_command that keeps the oldest entries when it trims
remember_keep_oldest(history, parsed_command) ==
    LET appended == Append(history, parsed_command)
    IN IF Len(appended) > HistoryCap
       THEN SubSeq(appended, 1, HistoryKeep)
       ELSE appended

\* CommandParser.remember_command(parsed_command): the new command_history
remember_command(history, parsed_command) ==
    LET appended == Append(history, parsed_command)
    IN IF Len(appended) > HistoryCap
       THEN SubSeq(appended, Len(appended) - HistoryKeep + 1, Len(appended))
       ELSE appended

----------------------------------------------------------------------------
(* CommandParser: dicts, and the regular expressions of the patterns       *)

\* A dict is the sequence of its items, [k |-> key, v |-> value], in
\* insertion order.
has_key(d, key) == \E i \in 1..Len(d) : d[i].k = key
get_item(d, key) == d[CHOOSE i \in 1..Len(d) : d[i].k = key].v
\* d[key] = value
set_item(d, key, value) ==
    IF has_key(d, key)
    THEN [i \in 1..Len(d) |-> IF d[i].k = key THEN [k |-> key, v |-> value] ELSE d[i]]
    ELSE Append(d, [k |-> key, v |-> value])

\* An Optional value: None is the empty sequence, a value x is <<x>>.
Nothing == <<>>
Some(x) == <<x>>

StartsWith(s, prefix) ==
    Len(prefix) <= Len(s) /\ Slice(s, 0, Len(prefix)) = prefix

\* The placeholders _convert_pattern_to_regex replaces by a group
Placeholders == <<"{file}", "{app}", "{text}", "{number}", "{path}">>

\* CommandParser._convert_pattern_to_regex(pattern): the regex as the sequence
\* of its parts, a literal text (group = "") or the group of a placeholder.
\* The literal text of the patterns holds no character special to a regex.
RECURSIVE convert_pattern_to_regex(_)
convert_pattern_to_regex(pattern) ==
    IF pattern = "" THEN <<>>
    ELSE LET starts == {i \in 1..Len(Placeholders) : StartsWith(pattern, Placeholders[i])}
         IN IF starts # {}
            THEN LET ph == Placeholders[CHOOSE i \in starts : TRUE]
                 IN <<[group |-> ph, text |-> ""]>>
                      \o convert_pattern_to_regex(Slice(pattern, Len(ph), Len(pattern)))
            ELSE LET rest == convert_pattern_to_regex(Slice(pattern, 1, Len(pattern)))
                     c == Slice(pattern, 0, 1)
                 IN IF rest # <<>> /\ rest[1].group = ""
                    THEN <<[group |-> "", text |-> c \o rest[1].text]>> \o Tail(rest)
                    ELSE <<[group |-> "", text |-> c]>> \o rest

\* Whether text t is in the language of the group of a placeholder:
\*   {file}, {path}  ([^\s]+)
\*   {app}           ([a-zA-Z]+(?:\s+[a-zA-Z]+)*)
\*   {text}          (.+)
\*   {number}        (\d+)
in_group(ph, t) ==
    /\ Len(t) > 0
    /\ CASE ph \in {"{file}", "{path}"} ->
                \A i \in 1..Len(t) : ~IsSpace(Char(t, i))
         [] ph = "{app}" ->
                /\ \A i \in 1..Len(t) : IsLetter(Char(t, i)) \/ IsSpace(Char(t, i))
                /\ IsLetter(Char(t, 1)) /\ IsLetter(Char(t, Len(t)))
         [] ph = "{text}" -> TRUE
         [] ph = "{number}" -> \A i \in 1..Len(t) : IsDigit(Char(t, i))

NoMatch == [matched |-> FALSE, groups |-> <<>>]

\* The regex parts from the k-th on match s from offset pos (0-based) on; a
\* group is greedy, it takes the longest text that lets the rest match.
RECURSIVE match_here(_, _, _, _)
match_here(regex, k, s, pos) ==
    IF k > Len(regex) THEN [matched |-> TRUE, groups |-> <<>>]
    ELSE LET part == regex[k]
         IN IF part.group = ""
            THEN IF pos + Len(part.text) <= Len(s)
                      /\ Slice(s, pos, pos + Len(part.text)) = lower(part.text)
                 THEN match_here(regex, k + 1, s, pos + Len(part.text))
                 ELSE NoMatch
            ELSE LET ends == {q \in (pos + 1)..Len(s) :
                                 /\ in_group(part.group, Slice(s, pos, q))
                                 /\ match_here(regex, k + 1, s, q).matched}
                 IN IF ends = {} THEN NoMatch
                    ELSE LET q == Max(ends)
                         IN [matched |-> TRUE,
                             groups |-> <<Slice(s, pos, q)>>
                                          \o match_here(regex, k + 1, s, q).groups]

\* re.search(regex, command, re.IGNORECASE) on a lowercased command: the match
\* at the leftmost offset that has one
re_search(regex, command) ==
    LET offsets == {pos \in 0..Len(command) : match_here(regex, 1, command, pos).matched}
    IN IF offsets = {} THEN NoMatch
       ELSE match_here(regex, 1, command, Min(offsets))

----------------------------------------------------------------------------
(* CommandParser: entities and parameters                                  *)

\* CommandParser._extract_entities_from_match(match, pattern), on the groups
\* of the match. A pattern that holds a placeholder has a group, so the None
\* of the source is never taken; it is written "#None".
extract_entities_from_match(groups, pattern) ==
    LET first == IF groups # <<>> THEN groups[1] ELSE "#None"
        e1 == IF Contains(pattern.pattern, "{file}")
              THEN set_item(<<>>, "file", first) ELSE <<>>
        e2 == IF Contains(pattern.pattern, "{app}")
              THEN set_item(e1, "app", first) ELSE e1
        e3 == IF Contains(pattern.pattern, "{text}")
              THEN set_item(e2, "text", first) ELSE e2
    IN e3

\* CommandParser._map_parameters(entities, mapping); the mapping is the
\* sequence of the items of the dict.
RECURSIVE map_parameters(_, _)
map_parameters(entities, mapping) ==
    IF mapping = <<>> THEN <<>>
    ELSE LET item == mapping[Len(mapping)]
             parameters == map_parameters(entities, SubSeq(mapping, 1, Len(mapping) - 1))
         IN IF has_key(entities, item.entity)
            THEN set_item(parameters, item.param, get_item(entities, item.entity))
            ELSE parameters

StartsWithAt(s, pos, prefix) ==
    pos + Len(prefix) <= Len(s) /\ Slice(s, pos, pos + Len(prefix)) = prefix

\* Where the run of non-space characters from offset pos on ends
RECURSIVE run_end(_, _)
run_end(s, pos) ==
    IF pos < Len(s) /\ ~IsSpace(Char(s, pos + 1)) THEN run_end(s, pos + 1) ELSE pos

\* The length of what comes before [^\s]+ in a path or url regex, when s has
\* it at offset pos; 0 when it has not.
prefix_len(kind, s, pos) ==
    CASE kind = "windows" ->
            IF /\ pos + 3 <= Len(s)
               /\ IsLetter(Char(s, pos + 1))
               /\ Char(s, pos + 2) = ":"
               /\ Char(s, pos + 3) \in {"\\", "/"}
            THEN 3 ELSE 0
      [] kind = "unix" -> IF StartsWithAt(s, pos, "/") THEN 1 ELSE 0
      [] kind = "home" -> IF StartsWithAt(s, pos, "~/") THEN 2 ELSE 0
      [] kind = "relative" -> IF StartsWithAt(s, pos, "./") THEN 2 ELSE 0
      [] kind = "parent" ->
            IF StartsWithAt(s, pos, "..\\") \/ StartsWithAt(s, pos, "../") THEN 3 ELSE 0
      [] kind = "url" ->
            IF StartsWithAt(s, pos, "https://") THEN 8
            ELSE IF StartsWithAt(s, pos, "http://") THEN 7 ELSE 0

\* re.findall of a path or url regex on s, from offset pos on
RECURSIVE findall_prefixed(_, _, _)
findall_prefixed(kind, s, pos) ==
    IF pos >= Len(s) THEN <<>>
    ELSE LET n == prefix_len(kind, s, pos)
             e == run_end(s, pos + n)
         IN IF n > 0 /\ e > pos + n
            THEN <<Slice(s, pos, e)>> \o findall_prefixed(kind, s, e)
            ELSE findall_prefixed(kind, s, pos + 1)

path_patterns == <<"windows", "unix", "home", "relative", "parent">>

\* The loop over path_patterns: the matches of the first regex that has any
RECURSIVE first_path_matches(_, _)
first_path_matches(command, k) ==
    IF k > Len(path_patterns) THEN <<>>
    ELSE LET matches == findall_prefixed(path_patterns[k], command, 0)
         IN IF matches # <<>> THEN matches ELSE first_path_matches(command, k + 1)

RECURSIVE digits_end(_, _)
digits_end(s, pos) ==
    IF pos < Len(s) /\ IsDigit(Char(s, pos + 1)) THEN digits_end(s, pos + 1) ELSE pos

\* int(n) of a string of digits
RECURSIVE to_int(_)
to_int(n) ==
    IF n = "" THEN 0
    ELSE 10 * to_int(SubSeq(n, 1, Len(n) - 1))
           + (CHOOSE d \in 0..9 : Char(DigitChars, d + 1) = Char(n, Len(n)))

\* [int(n) for n in re.findall(r'\b\d+\b', s)], from offset pos on
RECURSIVE findall_numbers(_, _)
findall_numbers(s, pos) ==
    IF pos >= Len(s) THEN <<>>
    ELSE LET e == digits_end(s, pos)
         IN IF /\ e > pos
               /\ (pos = 0 \/ ~IsWord(Char(s, pos)))
               /\ (e = Len(s) \/ ~IsWord(Char(s, e + 1)))
            THEN <<to_int(Slice(s, pos, e))>> \o findall_numbers(s, e)
            ELSE findall_numbers(s, pos + 1)

\* re.findall(r'"([^"]*)"', s), from offset pos on
RECURSIVE findall_quoted(_, _)
findall_quoted(s, pos) ==
    LET quotes == {i \in pos..(Len(s) - 1) : Char(s, i + 1) = "\""}
    IN IF Cardinality(quotes) < 2 THEN <<>>
       ELSE LET open == Min(quotes)
                close == Min(quotes \ {open})
            IN <<Slice(s, open + 1, close)>> \o findall_quoted(s, close + 1)

\* re.findall of the email regex: every match of it holds an "@", and the
\* inputs of the model hold none.
findall_emails(s) == <<>>

\* if matches: entities[key] = matches
found_entity(entities, key, matches) ==
    IF matches # <<>> THEN set_item(entities, key, matches) ELSE entities

\* CommandParser._extract_common_entities(command)
extract_common_entities(command) ==
    found_entity(
        found_entity(
            found_entity(
                found_entity(
                    found_entity(<<>>, "file_paths", first_path_matches(command, 1)),
                    "urls", findall_prefixed("url", command, 0)),
                "emails", findall_emails(command)),
            "numbers", findall_numbers(command, 0)),
        "quoted_strings", findall_quoted(command, 0))

\* CommandParser._extract_entities_fuzzy(command, pattern)
extract_entities_fuzzy(command, pattern) == extract_common_entities(command)

----------------------------------------------------------------------------
(* fuzzywuzzy: utils.full_process, the token ratios, WRatio, process.extract *)

\* utils.full_process(s): every character that is not \w becomes a space,
\* then lower() and strip()
RECURSIVE non_word_to_space(_)
non_word_to_space(s) ==
    IF s = "" THEN ""
    ELSE (IF IsWord(Char(s, 1)) THEN Char(s, 1) ELSE " ")
           \o non_word_to_space(SubSeq(s, 2, Len(s)))

full_process(s) == strip(lower(non_word_to_space(s)))

\* str.split()
RECURSIVE split(_)
split(s) ==
    LET t == strip(s)
    IN IF t = "" THEN <<>>
       ELSE LET e == run_end(t, 0)
            IN <<Slice(t, 0, e)>> \o split(Slice(t, e, Len(t)))

\* " ".join(tokens)
RECURSIVE join(_)
join(tokens) ==
    IF tokens = <<>> THEN ""
    ELSE IF Len(tokens) = 1 THEN tokens[1]
    ELSE tokens[1] \o " " \o join(Tail(tokens))

\* The characters of the tokens in the order of their code points
CodeOrder == DigitChars \o UpperLetters \o "_" \o LowerLetters
code(c) == CHOOSE i \in 1..Len(CodeOrder) : Char(CodeOrder, i) = c

\* a < b for str
RECURSIVE str_less(_, _)
str_less(a, b) ==
    IF b = "" THEN FALSE
    ELSE IF a = "" THEN TRUE
    ELSE IF Char(a, 1) = Char(b, 1)
         THEN str_less(SubSeq(a, 2, Len(a)), SubSeq(b, 2, Len(b)))
         ELSE code(Char(a, 1)) < code(Char(b, 1))

\* sorted(tokens) for a set of tokens
RECURSIVE sorted(_)
sorted(tokens) ==
    IF tokens = {} THEN <<>>
    ELSE LET least == CHOOSE t \in tokens : \A u \in tokens \ {t} : str_less(t, u)
         IN <<least>> \o sorted(tokens \ {least})

\* sorted(tokens) for a list of tokens, which can hold a token twice
RECURSIVE sorted_list(_)
sorted_list(tokens) ==
    IF tokens = <<>> THEN <<>>
    ELSE LET least == CHOOSE i \in 1..Len(tokens) :
                         \A j \in 1..Len(tokens) : ~str_less(tokens[j], tokens[i])
         IN <<tokens[least]>>
              \o sorted_list([j \in 1..(Len(tokens) - 1) |->
                                 IF j < least THEN tokens[j] ELSE tokens[j + 1]])

\* ratio_func = partial_ratio if partial else ratio
ratio_func(partial, a, b) ==
    IF partial THEN fuzz_partial_ratio(a, b) ELSE fuzz_ratio(a, b)

\* fuzz._process_and_sort(s, force_ascii, full_process=False)
process_and_sort(s) == strip(join(sorted_list(split(s))))

\* fuzz._token_sort(s1, s2, partial, full_process=False)
token_sort(s1, s2, partial) ==
    ratio_func(partial, process_and_sort(s1), process_and_sort(s2))

\* The best ratio among the pairs of the three comparison strings
pairwise(sect, combined_1to2, combined_2to1, partial) ==
    Max({ratio_func(partial, p[1], p[2]) :
            p \in {<<sect, combined_1to2>>, <<sect, combined_2to1>>,
                   <<combined_1to2, combined_2to1>>}})

\* fuzz._token_set(s1, s2, partial, full_process=False)
token_set(s1, s2, partial) ==
    IF s1 = s2 THEN 100
    ELSE IF s1 = "" \/ s2 = "" THEN 0
    ELSE LET tokens1 == SeqToSet(split(s1))
             tokens2 == SeqToSet(split(s2))
             sorted_sect == join(sorted(tokens1 \cap tokens2))
             sorted_1to2 == join(sorted(tokens1 \ tokens2))
             sorted_2to1 == join(sorted(tokens2 \ tokens1))
         IN pairwise(strip(sorted_sect),
                     strip(sorted_sect \o " " \o sorted_1to2),
                     strip(sorted_sect \o " " \o sorted_2to1), partial)

\* int(round(n / 10000)), rounding halves to even
intr_scaled(n) ==
    LET q == n \div 10000
        r == n % 10000
    IN IF r > 5000 THEN q + 1
       ELSE IF r < 5000 THEN q
       ELSE IF q % 2 = 0 THEN q ELSE q + 1

\* The best of the ratios under their scales: the scales .95, .90 and .6 are
\* applied in ten-thousandths.
weighted(p1, p2, try_partial, partial_scale) ==
    intr_scaled(Max(
        {10000 * fuzz_ratio(p1, p2)}
        \cup (IF try_partial
              THEN {100 * partial_scale * fuzz_partial_ratio(p1, p2)} ELSE {})
        \cup {(IF try_partial THEN 95 * partial_scale ELSE 9500) * t :
                 t \in {token_sort(p1, p2, try_partial),
                        token_set(p1, p2, try_partial)}}))

\* fuzz.WRatio(s1, s2, full_process=False): try_partial is off when the
\* lengths are within a ratio of 1.5, and the partial scale drops to .6 when
\* they are beyond a ratio of 8
WRatio(p1, p2) ==
    IF p1 = "" \/ p2 = "" THEN 0
    ELSE LET longest == Max({Len(p1), Len(p2)})
             shortest == Min({Len(p1), Len(p2)})
         IN weighted(p1, p2, ~(2 * longest < 3 * shortest),
                     IF longest > 8 * shortest THEN 60 ELSE 90)

\* The score process.extract gives a choice: both strings go through
\* full_process and then to the scorer WRatio
extract_score(query, choice) ==
    WRatio(full_process(full_process(query)), full_process(choice))

----------------------------------------------------------------------------
(* CommandParser: the stages of parse_command                              *)

\* The commands callers submit
Commands ==
    { "", "  ", "Open Calculator", "open blender", "take screenshot", "zzz",
      "files", "?!", "zip /tmp/a 3", "archive it", "calculator", "opn blender",
      "zp", " copy a.txt to /tmp ", "calc zip", "pack 3" }

\* command.strip().lower() without the strip (what C9 rules out)
normalize_keep_spaces(command) == lower(command)

\* command.strip().lower()
normalize(command) == lower(strip(command))

\* The fixed phrasings _suggest_alternatives offers next to the tool names
common_commands ==
    << "open blender", "take screenshot", "list files", "search web",
       "copy files", "move files", "create zip", "monitor system" >>

\* The scores of the fuzzy library on the strings the model's commands meet,
\* computed once: a set of <<arguments, score>>
NormalCommands == {normalize(c) : c \in Commands}
ToolTexts ==
    UNION {{lower(ClassTable[c].name), lower(ClassTable[c].description)} :
           c \in ToolClasses}
OptionTexts == {ClassTable[c].name : c \in ToolClasses} \cup SeqToSet(common_commands)
partial_ratio_scores ==
    {<<p, fuzz_partial_ratio(p[1], p[2])>> : p \in NormalCommands \X ToolTexts}
extract_scores ==
    {<<p, extract_score(p[1], p[2])>> : p \in NormalCommands \X OptionTexts}

\* The entry of a set of <<arguments, value>> for the arguments args
lookup(scores, args) == (CHOOSE e \in scores : e[1] = args)[2]

\* fuzz.partial_ratio and the score of process.extract, looked up where they
\* are computed already
partial_ratio(s1, s2) == lookup(partial_ratio_scores, <<s1, s2>>)
score_of(query, choice) == lookup(extract_scores, <<query, choice>>)

\* The dataclass ParsedCommand; confidence is in hundredths
ParsedCommand(intent, action, entities, confidence, tool_name, parameters, alternatives) ==
    [intent |-> intent, action |-> action, entities |-> entities,
     confidence |-> confidence, tool_name |-> tool_name,
     parameters |-> parameters, alternatives |-> alternatives]

\* ParsedCommand(intent="unknown", action="none", entities={}, confidence=0.0)
UnknownCommand == ParsedCommand("unknown", "none", <<>>, 0, Nothing, Nothing, Nothing)

\* CommandParser._infer_parameters(entities, tool_name): the loop over
\* tool.metadata.parameters, from the k-th on
RECURSIVE infer_from(_, _, _)
infer_from(entities, params, k) ==
    IF k = 0 THEN <<>>
    ELSE LET parameters == infer_from(entities, params, k - 1)
             param_name == lower(params[k])
             has(key) == has_key(entities, key)
         IN IF Contains(param_name, "path") \/ Contains(param_name, "file")
            THEN IF has("file_paths") /\ get_item(entities, "file_paths") # <<>>
                 THEN set_item(parameters, params[k], get_item(entities, "file_paths")[1])
                 ELSE IF has("file")
                 THEN set_item(parameters, params[k], get_item(entities, "file"))
                 ELSE parameters
            ELSE IF Contains(param_name, "url")
            THEN IF has("urls") /\ get_item(entities, "urls") # <<>>
                 THEN set_item(parameters, params[k], get_item(entities, "urls")[1])
                 ELSE parameters
            ELSE IF Contains(param_name, "text") \/ Contains(param_name, "message")
            THEN IF has("text")
                 THEN set_item(parameters, params[k], get_item(entities, "text"))
                 ELSE IF has("quoted_strings") /\ get_item(entities, "quoted_strings") # <<>>
                 THEN set_item(parameters, params[k], get_item(entities, "quoted_strings")[1])
                 ELSE parameters
            ELSE IF Contains(param_name, "number") \/ Contains(param_name, "count")
            THEN IF has("numbers") /\ get_item(entities, "numbers") # <<>>
                 THEN set_item(parameters, params[k], get_item(entities, "numbers")[1])
                 ELSE parameters
            ELSE parameters

\* CommandParser._infer_parameters(entities, tool_name)
infer_parameters(reg, entities, tool_name) ==
    IF tool_name = Nothing \/ tool_name = Some("") THEN <<>>
    ELSE IF get_tool(reg, tool_name[1]) = None THEN <<>>
    ELSE LET tool == get_tool(reg, tool_name[1])
         IN infer_from(entities, metadata(tool).parameters,
                       Len(metadata(tool).parameters))

\* The import of spaCy and of its model en_core_web_sm failed: the resolver
\* is modelled without the NLP stage.
SPACY_AVAILABLE == FALSE

\* best_confidence and best_match once the pattern matched with confidence
matched_pattern(pattern, entities, confidence) ==
    [best_confidence |-> confidence,
     best_match |-> Some(ParsedCommand(
         pattern.intent, pattern.action, entities, confidence,
         Some(pattern.tool_name),
         Some(map_parameters(entities, pattern.parameter_mapping)),
         Nothing))]

\* if similarity > 0.8 and similarity > best_confidence
example_match(best, pattern, similarity, entities) ==
    IF similarity > 80 /\ similarity > best.best_confidence
    THEN matched_pattern(pattern, entities, similarity)
    ELSE best

\* The inner loop of _match_patterns over pattern.examples, from the k-th on
RECURSIVE match_examples(_, _, _, _)
match_examples(best, command, pattern, k) ==
    IF k > Len(pattern.examples) THEN best
    ELSE match_examples(
             example_match(best, pattern,
                           fuzz_ratio(command, lower(pattern.examples[k])),
                           extract_entities_fuzzy(command, pattern)),
             command, pattern, k + 1)

\* A match that also replaces a candidate of equal confidence, so that of
\* several structural matches the latest declared wins
regex_match_last_wins(best, pattern, match, confidence) ==
    IF match.matched /\ confidence >= best.best_confidence
    THEN matched_pattern(pattern, extract_entities_from_match(match.groups, pattern),
                         confidence)
    ELSE best

\* if match: ... if confidence > best_confidence
regex_match(best, pattern, match, confidence) ==
    IF match.matched /\ confidence > best.best_confidence
    THEN matched_pattern(pattern, extract_entities_from_match(match.groups, pattern),
                         confidence)
    ELSE best

\* if FUZZY_AVAILABLE: the loop over pattern.examples
fuzzy_examples(best, command, pattern, fuzzy) ==
    IF fuzzy THEN match_examples(best, command, pattern, 1) ELSE best

\* One round of the loop of _match_patterns over self.patterns
match_pattern(best, command, pattern, fuzzy) ==
    fuzzy_examples(
        regex_match(best, pattern,
                    re_search(convert_pattern_to_regex(pattern.pattern), command), 90),
        command, pattern, fuzzy)

RECURSIVE match_patterns_from(_, _, _, _, _)
match_patterns_from(best, pats, command, fuzzy, k) ==
    IF k > Len(pats) THEN best
    ELSE match_patterns_from(match_pattern(best, command, pats[k], fuzzy),
                             pats, command, fuzzy, k + 1)

\* return best_match or ParsedCommand(intent="unknown", ...)
best_match_or_unknown(best) ==
    IF best.best_match # Nothing THEN best.best_match[1] ELSE UnknownCommand

\* CommandParser._match_patterns(command)
match_patterns(pats, command, fuzzy) ==
    best_match_or_unknown(
        match_patterns_from([best_confidence |-> 0, best_match |-> Nothing],
                            pats, command, fuzzy, 1))

\* _match_patterns over the built-in patterns and _extract_common_entities,
\* on the model's commands, computed once
pattern_results ==
    {<<p, match_patterns(builtin_patterns, p[1], p[2])>> : p \in NormalCommands \X BOOLEAN}
common_entities == {<<c, extract_common_entities(c)>> : c \in NormalCommands}

\* self._match_patterns(command), looked up where it is computed already
pattern_stage(pats, command, fuzzy) ==
    IF pats = builtin_patterns
    THEN lookup(pattern_results, <<command, fuzzy>>)
    ELSE match_patterns(pats, command, fuzzy)

\* self._extract_common_entities(command), looked up likewise
entities_of(command) == lookup(common_entities, command)

\* The loop of _match_tool_names over tool.metadata.keywords, from the k-th on
RECURSIVE match_keywords(_, _, _, _)
match_keywords(best, command, tool, k) ==
    IF k > Len(metadata(tool).keywords) THEN best
    ELSE LET confidence == 60
         IN IF Contains(command, lower(metadata(tool).keywords[k]))
                 /\ confidence > best.best_confidence
            THEN match_keywords([best_confidence |-> confidence, best_tool |-> Some(tool)],
                                command, tool, k + 1)
            ELSE match_keywords(best, command, tool, k + 1)

\* A name check that only counts while no tool is matched yet, so that a tool
\* matched by a keyword keeps its place against a later one matched by name
name_match_unless_matched(best, command, tool_name, tool) ==
    IF Contains(command, lower(tool_name)) /\ best.best_tool = Nothing
    THEN [best_confidence |-> 80, best_tool |-> Some(tool)]
    ELSE best

\* if tool_name.lower() in command: confidence = 0.8
name_match(best, command, tool_name, tool) ==
    IF Contains(command, lower(tool_name)) /\ 80 > best.best_confidence
    THEN [best_confidence |-> 80, best_tool |-> Some(tool)]
    ELSE best

\* A similarity check with no threshold: any similarity above the best
\* confidence so far becomes the confidence
similar_match_any(best, tool, fuzzy, similarity) ==
    IF fuzzy /\ similarity > 0 /\ similarity > best.best_confidence
    THEN [best_confidence |-> similarity, best_tool |-> Some(tool)]
    ELSE best

\* if FUZZY_AVAILABLE: ... if similarity > 0.7 and similarity > best_confidence
similar_match(best, tool, fuzzy, similarity) ==
    IF fuzzy /\ similarity > 70 /\ similarity > best.best_confidence
    THEN [best_confidence |-> similarity, best_tool |-> Some(tool)]
    ELSE best

\* One round of the loop of _match_tool_names over the items of the registry
match_tool(best, command, tool_name, tool, fuzzy) ==
    similar_match(
        match_keywords(name_match(best, command, tool_name, tool), command, tool, 1),
        tool, fuzzy,
        Max({partial_ratio(command, lower(text)) :
                text \in {tool_name, metadata(tool).description}}))

RECURSIVE match_tools_from(_, _, _, _, _)
match_tools_from(best, reg, command, fuzzy, k) ==
    IF k > Len(reg.order) THEN best
    ELSE match_tools_from(
             match_tool(best, command, reg.order[k], reg.tools[reg.order[k]], fuzzy),
             reg, command, fuzzy, k + 1)

\* if best_tool: ParsedCommand(intent="execute_tool", ...), else unknown
best_tool_or_unknown(reg, command, best) ==
    IF best.best_tool # Nothing
    THEN ParsedCommand("execute_tool", "run", entities_of(command),
                       best.best_confidence,
                       Some(MetaName(best.best_tool[1])),
                       Some(infer_parameters(reg, entities_of(command),
                                             Some(MetaName(best.best_tool[1])))),
                       Nothing)
    ELSE UnknownCommand

\* CommandParser._match_tool_names(command)
match_tool_names(reg, command, fuzzy) ==
    best_tool_or_unknown(reg, command,
        match_tools_from([best_confidence |-> 0, best_tool |-> Nothing],
                         reg, command, fuzzy, 1))

\* heapq.nlargest(n, sl, key=score): the n best, the earlier first among equals
RECURSIVE nlargest(_, _)
nlargest(n, sl) ==
    IF n = 0 \/ sl = <<>> THEN <<>>
    ELSE LET top == Max({sl[i].score : i \in 1..Len(sl)})
             at == Min({i \in 1..Len(sl) : sl[i].score = top})
         IN <<sl[at]>>
              \o nlargest(n - 1, [j \in 1..(Len(sl) - 1) |->
                                     IF j < at THEN sl[j] ELSE sl[j + 1]])

\* process.extract(query, choices, limit=limit)
process_extract(query, choices, limit) ==
    nlargest(limit, [i \in 1..Len(choices) |->
                        [choice |-> choices[i], score |-> score_of(query, choices[i])]])

\* [match[0] for match in matches if match[1] > 60]
RECURSIVE choices_above(_, _)
choices_above(matches, score) ==
    IF matches = <<>> THEN <<>>
    ELSE (IF Head(matches).score > score THEN <<Head(matches).choice>> ELSE <<>>)
           \o choices_above(Tail(matches), score)

\* A _suggest_alternatives that offers the three closest options however far
\* they are (what C8 rules out)
suggest_unfiltered(reg, command, fuzzy) ==
    IF fuzzy
    THEN choices_above(process_extract(command, reg.order \o common_commands, 3), -1)
    ELSE <<>>

\* CommandParser._suggest_alternatives(command): the options are the tool
\* names followed by the common commands
suggest_alternatives(reg, command, fuzzy) ==
    IF fuzzy
    THEN choices_above(process_extract(command, reg.order \o common_commands, 3), 60)
    ELSE <<>>

\* if best_result.confidence < 0.3: the help result with the suggestions
best_or_help(reg, command, fuzzy, best_result) ==
    IF best_result.confidence < 30
    THEN [result |-> ParsedCommand("unknown", "help",
                         <<[k |-> "original_command", v |-> command]>>, 0,
                         Nothing, Nothing,
                         Some(suggest_alternatives(reg, command, fuzzy))),
          stages |-> <<"pattern", "tool", "suggest">>]
    ELSE [result |-> best_result, stages |-> <<"pattern", "tool">>]

\* if tool_result.confidence > pattern_result.confidence: return tool_result;
\* else max([pattern_result, tool_result], key=confidence), the first of equals
after_tools(reg, command, fuzzy, pattern_result, tool_result) ==
    IF tool_result.confidence > pattern_result.confidence
    THEN [result |-> tool_result, stages |-> <<"pattern", "tool">>]
    ELSE best_or_help(reg, command, fuzzy,
                      IF tool_result.confidence > pattern_result.confidence
                      THEN tool_result ELSE pattern_result)

\* if pattern_result.confidence > 0.7: return pattern_result
after_patterns(reg, command, fuzzy, pattern_result) ==
    IF pattern_result.confidence > 70
    THEN [result |-> pattern_result, stages |-> <<"pattern">>]
    ELSE after_tools(reg, command, fuzzy, pattern_result,
                     match_tool_names(reg, command, fuzzy))

\* The stages of parse_command on the normalized command
run_stages(reg, pats, command, fuzzy) ==
    IF command = ""
    THEN [result |-> ParsedCommand("unknown", "none", <<>>, 0, Nothing, Nothing, Nothing),
          stages |-> <<>>]
    ELSE after_patterns(reg, command, fuzzy, pattern_stage(pats, command, fuzzy))

\* A parse_command that always goes on to the tool-name stage and returns the
\* stage result of the higher confidence (what C6, as amended, rules out)
parse_command_plain_max(reg, pats, raw, fuzzy) ==
    IF normalize(raw) = ""
    THEN [result |-> ParsedCommand("unknown", "none", <<>>, 0, Nothing, Nothing, Nothing),
          stages |-> <<>>]
    ELSE after_tools(reg, normalize(raw), fuzzy,
                     pattern_stage(pats, normalize(raw), fuzzy),
                     match_tool_names(reg, normalize(raw), fuzzy))

\* A parse_command that reuses the history: an input whose result was
\* remembered comes back with full confidence (what C11 rules out)
parse_command_reusing_history(reg, pats, raw, fuzzy) ==
    IF \E i \in 1..Len(command_history) :
           command_history[i] = run_stages(reg, pats, normalize(raw), fuzzy).result
    THEN [run_stages(reg, pats, normalize(raw), fuzzy) EXCEPT !.result.confidence = 100]
    ELSE run_stages(reg, pats, normalize(raw), fuzzy)

\* CommandParser.parse_command(command): the ParsedCommand it returns, and the
\* stages it ran on the way
parse_command_run(reg, pats, raw, fuzzy) ==
    run_stages(reg, pats, normalize(raw), fuzzy)

parse_command(reg, pats, raw, fuzzy) == parse_command_run(reg, pats, raw, fuzzy).result

----------------------------------------------------------------------------
(* BaseTool: parameter validation and safe_execute                          *)

\* A Python value passed for a parameter: its type, and its number or text
Value(kind, num, str) == [kind |-> kind, num |-> num, str |-> str]
NoneVal == Value("none", 0, "")
StrVal(s) == Value("str", 0, s)
IntVal(n) == Value("int", n, "")
FloatVal(n) == Value("float", n, "")
\* bool is a subclass of int: True is 1 wherever a number is read
BoolVal(b) == Value("bool", IF b THEN 1 ELSE 0, "")

\* a == b of Python: numbers are equal where their values are
py_eq(a, b) ==
    IF a.kind \in {"int", "bool", "float"} /\ b.kind \in {"int", "bool", "float"}
    THEN a.num = b.num
    ELSE a = b

\* isinstance(value, cls), cls one of "str", "int", "number" for (int, float),
\* "bool", "list", "dict"
isinstance(value, cls) ==
    CASE cls = "str" -> value.kind = "str"
      [] cls = "int" -> value.kind \in {"int", "bool"}
      [] cls = "number" -> value.kind \in {"int", "bool", "float"}
      [] cls = "bool" -> value.kind = "bool"
      [] cls = "list" -> value.kind = "list"
      [] cls = "dict" -> value.kind = "dict"

\* ToolParameter(name, type, required, choices, min_value, max_value, pattern);
\* choices is a list (empty where it is None), the three others are Optional
ToolParameter(name, type, required, choices, min_value, max_value, pattern) ==
    [name |-> name, type |-> type, required |-> required, choices |-> choices,
     min_value |-> min_value, max_value |-> max_value, pattern |-> pattern]

\* An error message: its text, the values formatted into it, and the set of
\* keys formatted into it
Message(text, detail, keys) == [text |-> text, detail |-> detail, keys |-> keys]

\* re.match(pattern, value) for the patterns the descriptors declare: a match
\* starts at the first character and, without $, may end before the last
re_match(pattern, value) ==
    CASE pattern = "[a-z]+" ->
             Len(value) > 0 /\ InString(Char(value, 1), LowerLetters)
      [] pattern = "[a-z]+$" ->
             Len(value) > 0 /\ \A i \in 1..Len(value) : InString(Char(value, i), LowerLetters)

\* The files and directories that exist
Files == {"a.txt"}
Directories == {"/tmp"}

Valid == [ok |-> TRUE, error |-> Nothing]
Invalid(text, detail, keys) == [ok |-> FALSE, error |-> Some(Message(text, detail, keys))]

\* The type validation of ToolParameter.validate: the class a value of the
\* type must be an instance of, and the words of the message; the other
\* types are not validated
TypeClass ==
    [string |-> "str", integer |-> "int", float |-> "number",
     boolean |-> "bool", list |-> "list", dict |-> "dict"]
TypeWords ==
    [string |-> "a string", integer |-> "an integer", float |-> "a number",
     boolean |-> "a boolean", list |-> "a list", dict |-> "a dictionary"]

\* The checks of ToolParameter.validate that follow the range validation
validate_rest(self, value) ==
    IF /\ self.choices # <<>>
       /\ ~\E i \in 1..Len(self.choices) : py_eq(value, self.choices[i])
    THEN Invalid("Parameter '" \o self.name \o "' must be one of: ", self.choices, {})
    ELSE IF /\ self.type = "string" /\ self.pattern # Nothing /\ self.pattern # Some("")
            /\ isinstance(value, "str")
            /\ ~re_match(self.pattern[1], value.str)
    THEN Invalid("Parameter '" \o self.name \o "' does not match required pattern", <<>>, {})
    ELSE IF /\ self.type = "file" /\ isinstance(value, "str") /\ value.str \notin Files
    THEN Invalid("File not found: ", <<value>>, {})
    ELSE IF /\ self.type = "directory" /\ isinstance(value, "str")
            /\ value.str \notin Directories
    THEN Invalid("Directory not found: ", <<value>>, {})
    ELSE Valid

\* ToolParameter.validate(value); the descriptors declare no url and no email
\* parameter
validate(self, value) ==
    IF value = NoneVal
    THEN IF self.required
         THEN Invalid("Parameter '" \o self.name \o "' is required", <<>>, {})
         ELSE Valid
    ELSE IF self.type \in DOMAIN TypeClass /\ ~isinstance(value, TypeClass[self.type])
    THEN Invalid("Parameter '" \o self.name \o "' must be " \o TypeWords[self.type], <<>>, {})
    ELSE IF /\ self.type \in {"integer", "float"} /\ isinstance(value, "number")
            /\ self.min_value # Nothing /\ value.num < self.min_value[1]
    THEN Invalid("Parameter '" \o self.name \o "' must be >= ",
                 <<IntVal(self.min_value[1])>>, {})
    ELSE IF /\ self.type \in {"integer", "float"} /\ isinstance(value, "number")
            /\ self.max_value # Nothing /\ value.num > self.max_value[1]
    THEN Invalid("Parameter '" \o self.name \o "' must be <= ",
                 <<IntVal(self.max_value[1])>>, {})
    ELSE validate_rest(self, value)

\* kwargs.get(name)
kwargs_get(kwargs, name) == IF name \in DOMAIN kwargs THEN kwargs[name] ELSE NoneVal

\* The loop of validate_parameters over self.metadata.parameters: the result
\* of the first parameter that is not valid
RECURSIVE validate_declared(_, _)
validate_declared(parameters, kwargs) ==
    IF parameters = <<>> THEN Valid
    ELSE IF ~validate(Head(parameters), kwargs_get(kwargs, Head(parameters).name)).ok
    THEN validate(Head(parameters), kwargs_get(kwargs, Head(parameters).name))
    ELSE validate_declared(Tail(parameters), kwargs)

expected_params(parameters) == {parameters[i].name : i \in 1..Len(parameters)}
unexpected(parameters, kwargs) == DOMAIN kwargs \ expected_params(parameters)

\* A validation that reports the unexpected keys before the declared
\* parameters
validate_unexpected_first(parameters, kwargs) ==
    IF unexpected(parameters, kwargs) # {}
    THEN Invalid("Unexpected parameters: ", <<>>, unexpected(parameters, kwargs))
    ELSE validate_declared(parameters, kwargs)

\* BaseTool.validate_parameters(**kwargs), parameters being
\* self.metadata.parameters
validate_parameters(parameters, kwargs) ==
    IF ~validate_declared(parameters, kwargs).ok
    THEN validate_declared(parameters, kwargs)
    ELSE IF unexpected(parameters, kwargs) # {}
    THEN Invalid("Unexpected parameters: ", <<>>, unexpected(parameters, kwargs))
    ELSE Valid

\* ToolResult(success, message, error); the elapsed time is left out
ToolResult(success, message, error) ==
    [success |-> success, message |-> message, error |-> error]

\* What self.execute(**kwargs) does: it returns a ToolResult or raises an
\* exception with a text
ExecuteOutcomes ==
    { [raises |-> FALSE, text |-> "", result |-> ToolResult(TRUE, "done", Nothing)],
      [raises |-> FALSE, text |-> "",
       result |-> ToolResult(FALSE, "failed", Some(Message("disk full", <<>>, {})))],
      [raises |-> TRUE, text |-> "boom", result |-> ToolResult(FALSE, "", Nothing)] }

\* The result of safe_execute once validation has answered; executed tells
\* whether self.execute was called, raised whether an exception left
\* safe_execute
safe_execute_after(validation, outcome) ==
    IF ~validation.ok
    THEN [result |-> ToolResult(FALSE, "Parameter validation failed", validation.error),
          executed |-> FALSE, raised |-> FALSE]
    ELSE IF outcome.raises
    THEN [result |-> ToolResult(FALSE, "Tool execution failed",
                        Some(Message("Tool execution failed: " \o outcome.text, <<>>, {}))),
          executed |-> TRUE, raised |-> FALSE]
    ELSE [result |-> outcome.result, executed |-> TRUE, raised |-> FALSE]

\* A safe_execute that calls execute before it looks at the validation
safe_execute_unvalidated(parameters, kwargs, outcome) ==
    safe_execute_after(Valid, outcome)

\* A safe_execute without the except clause
safe_execute_uncaught(parameters, kwargs, outcome) ==
    IF validate_parameters(parameters, kwargs).ok /\ outcome.raises
    THEN [result |-> ToolResult(FALSE, "", Nothing), executed |-> TRUE, raised |-> TRUE]
    ELSE safe_execute_after(validate_parameters(parameters, kwargs), outcome)

\* BaseTool.safe_execute(**kwargs)
safe_execute(parameters, kwargs, outcome) ==
    safe_execute_after(validate_parameters(parameters, kwargs), outcome)

\* metadata.parameters of the tools that are executed
Descriptors ==
    { <<ToolParameter("message", "string", TRUE, <<>>, Nothing, Nothing, Some("[a-z]+")),
        ToolParameter("count", "integer", FALSE, <<>>, Some(1), Some(3), Nothing)>>,
      <<ToolParameter("count", "integer", TRUE, <<>>, Some(1), Nothing, Nothing),
        ToolParameter("message", "string", FALSE, <<StrVal("hi"), StrVal("yo")>>,
                      Nothing, Nothing, Some("[a-z]+$"))>>,
      <<ToolParameter("count", "float", FALSE, <<>>, Nothing, Some(3), Nothing),
        ToolParameter("message", "file", TRUE, <<>>, Nothing, Nothing, Nothing)>>,
      <<>> }

\* The keys a caller passes and the values it passes for them
DeclaredKeys == {"message", "count"}
UndeclaredKeys == {"extra", "debug"}
KeyValues(key) ==
    IF key \in DeclaredKeys
    THEN {NoneVal, StrVal("hi"), StrVal("Hi"), StrVal("a.txt"), IntVal(0), IntVal(2),
          IntVal(9), BoolVal(TRUE), FloatVal(2)}
    ELSE {NoneVal, IntVal(2)}
Kwargs ==
    UNION { {kw \in [ks -> UNION {KeyValues(k) : k \in ks}] :
                \A k \in ks : kw[k] \in KeyValues(k)} :
            ks \in SUBSET (DeclaredKeys \cup UndeclaredKeys) }

----------------------------------------------------------------------------
(* DesktopMCPApp: execute_command and the command queue                    *)

\* DesktopMCPApp.__init__: the fields of the app. queued counts the calls of
\* queue_command; task tells where the task of _process_commands stands
\* ("none" before it is created, "waiting" in its sleep, "execute" once it
\* has taken a command, "callback" once it has the result, "ended" once an
\* exception has left it); log lists the steps the task has taken.
DesktopMCPApp ==
    [running |-> FALSE, command_queue |-> <<>>, execution_history |-> <<>>,
     queued |-> 0, task |-> "none", command_data |-> Nothing,
     result |-> Nothing, delivered |-> <<>>, log |-> <<>>]

\* metadata.parameters of a tool instance, as ToolParameter entries
parameters_of(tool) ==
    IF tool.cls = "Zip"
    THEN <<ToolParameter("file_path", "string", TRUE, <<>>, Nothing, Nothing, Nothing),
           ToolParameter("count", "integer", FALSE, <<>>, Some(1), Nothing, Nothing)>>
    ELSE <<>>

\* **parameters: the parameters of a ParsedCommand as keyword arguments; the
\* resolver fills "count" from the numbers of the command, the others from
\* its texts
to_kwargs(parameters) ==
    [key \in {parameters[i].k : i \in 1..Len(parameters)} |->
        IF key = "count" THEN IntVal(get_item(parameters, key))
        ELSE StrVal(get_item(parameters, key))]

\* The dict execute_command returns (the execution_id is left out)
CommandResult(success, error, result, parsed_command) ==
    [success |-> success, error |-> error, result |-> result,
     parsed_command |-> parsed_command]

\* What execute_command does: the dict it returns, the execution record it
\* appends, whether it remembers the command, whether it raises
Executed(result, record, remember) ==
    [result |-> result, record |-> record, remember |-> remember, raised |-> FALSE]
NotExecuted(error, parsed_command) ==
    Executed(CommandResult(FALSE, Some(error), Nothing, Some(parsed_command)),
             Nothing, FALSE)

\* An execute_command that remembers every command that reached a tool,
\* whatever the result of the tool
execute_tool_remember_all(parsed_command, run) ==
    IF run.raised
    THEN Executed(CommandResult(FALSE, Some("Command execution failed: "), Nothing, Nothing),
                  Nothing, FALSE)
    ELSE Executed(CommandResult(run.result.success, Nothing, Some(run.result),
                                Some(parsed_command)),
                  Some([tool_name |-> parsed_command.tool_name[1],
                        success |-> run.result.success]),
                  TRUE)

\* execute_command from tool.safe_execute(**parameters) on; run is what
\* safe_execute did
execute_tool(parsed_command, run) ==
    IF run.raised
    THEN Executed(CommandResult(FALSE, Some("Command execution failed: "), Nothing, Nothing),
                  Nothing, FALSE)
    ELSE Executed(CommandResult(run.result.success, Nothing, Some(run.result),
                                Some(parsed_command)),
                  Some([tool_name |-> parsed_command.tool_name[1],
                        success |-> run.result.success]),
                  run.result.success)

\* DesktopMCPApp.execute_command(command, source), parsed_command being what
\* parse_command(command) has returned and outcome what the tool's execute
\* does
execute_command(reg, parsed_command, outcome) ==
    IF parsed_command.confidence < 30
    THEN NotExecuted("Could not understand command", parsed_command)
    ELSE IF parsed_command.tool_name = Nothing \/ parsed_command.tool_name = Some("")
    THEN NotExecuted("No tool identified for command", parsed_command)
    ELSE IF get_tool(reg, parsed_command.tool_name[1]) = None
    THEN NotExecuted("Tool not found: " \o parsed_command.tool_name[1], parsed_command)
    ELSE execute_tool(parsed_command,
             safe_execute(parameters_of(get_tool(reg, parsed_command.tool_name[1])),
                          to_kwargs(IF parsed_command.parameters = Nothing THEN <<>>
                                    ELSE parsed_command.parameters[1]),
                          outcome))

\* The registry once initialize has loaded the tools
AppRegistry ==
    register(register([tools |-> EmptyMap, order |-> <<>>, categories |-> EmptyMap],
                      [cls |-> "Calculator", module |-> <<"__main__", "">>,
                       unit |-> "caller", serial |-> 1]),
             [cls |-> "Zip", module |-> <<"__main__", "">>, unit |-> "caller",
              serial |-> 2])

\* The commands that are queued and the callbacks they are queued with: None,
\* a function that returns, a function that raises
AppCommands == {"zzz", "open blender", "archive it", "zip /tmp/a 3"}
Callbacks == {"None", "returns", "raises"}

\* parse_command(command) over that registry and the built-in patterns,
\* computed once for every command and value of FUZZY_AVAILABLE
app_parses ==
    {<<p, parse_command_run(AppRegistry, builtin_patterns, p[1], p[2]).result>> :
        p \in AppCommands \X BOOLEAN}

\* execute_command(command) over that registry, computed once for every
\* command, value of FUZZY_AVAILABLE and outcome of the tool; nothing
\* registers a tool once initialize has returned
app_runs ==
    {<<p, execute_command(AppRegistry, lookup(app_parses, <<p[1], p[2]>>), p[3])>> :
        p \in AppCommands \X BOOLEAN \X ExecuteOutcomes}

\* The entry of app.log for a step of the task on a command; waiting is the
\* number of commands in the queue when the step is taken
LogEntry(step, command_data) ==
    [step |-> step, n |-> command_data.n, callback |-> command_data.callback,
     waiting |-> Len(app.command_queue)]

\* A loop that goes on whatever running is
loop_check_always(self) == TRUE

\* _process_commands: while self.running
loop_check(self) == self.running

\* DesktopMCPApp.shutdown(): what it does to the fields the task reads
shutdown(self) == [self EXCEPT !.running = FALSE]

\* A queue whose get gives the item that was put last
queue_get_last(command_queue) ==
    [item |-> command_queue[Len(command_queue)],
     rest |-> SubSeq(command_queue, 1, Len(command_queue) - 1)]

\* asyncio.Queue.get() on a queue that is not empty
queue_get(command_queue) ==
    [item |-> Head(command_queue), rest |-> Tail(command_queue)]

\* A task that has no except clause around the callback
after_callback_uncaught(callback) ==
    IF callback = "raises" THEN "ended" ELSE "waiting"

\* Where the task stands once command_data["callback"](result) was reached:
\* an exception is caught inside the loop, which sleeps and goes on
after_callback(callback) == "waiting"

----------------------------------------------------------------------------
(* PluginManager: validate_plugin_dependencies                             *)

\* importlib.import_module(package) for the packages a tool can require: the
\* package is imported, or the import raises ImportError, or it raises
\* another exception
import_module(package) ==
    CASE package = "json" -> "imported"
      [] package = "nopackage" -> "ImportError"
      [] package = "brokenlib" -> "OSError"

\* s.split('.')
RECURSIVE split_dots(_)
split_dots(s) ==
    IF ~Contains(s, ".") THEN <<s>>
    ELSE <<Slice(s, 0, Min({i \in 0..(Len(s) - 1) : Char(s, i + 1) = "."}))>>
           \o split_dots(Slice(s, Min({i \in 0..(Len(s) - 1) : Char(s, i + 1) = "."}) + 1,
                               Len(s)))

\* Whether int(s) returns; it raises ValueError for a text that is empty or
\* holds a character that is no digit
is_int(s) == s # "" /\ \A i \in 1..Len(s) : IsDigit(Char(s, i))

\* a < b for tuples of numbers
RECURSIVE tuple_less(_, _)
tuple_less(a, b) ==
    IF a = <<>> THEN b # <<>>
    ELSE IF b = <<>> THEN FALSE
    ELSE IF a[1] # b[1] THEN a[1] < b[1]
    ELSE tuple_less(Tail(a), Tail(b))

\* tuple(map(int, parts))
to_ints(parts) == [i \in 1..Len(parts) |-> to_int(parts[i])]

\* The result dict of validate_plugin_dependencies; error is the "error" key,
\* which the dict holds once an exception was caught
DependencyResult(valid, missing_packages, platform_compatible, python_version_ok, error) ==
    [valid |-> valid, missing_packages |-> missing_packages,
     platform_compatible |-> platform_compatible,
     python_version_ok |-> python_version_ok, error |-> error]

\* The except clause of validate_plugin_dependencies; the name of the
\* exception stands for its text
dependency_error(result, text) == [result EXCEPT !.valid = FALSE, !.error = Some(text)]

\* The loop over tool.metadata.requirements
RECURSIVE check_packages(_, _)
check_packages(result, requirements) ==
    IF requirements = <<>> THEN result
    ELSE IF import_module(Head(requirements)) = "imported"
    THEN check_packages(result, Tail(requirements))
    ELSE IF import_module(Head(requirements)) = "ImportError"
    THEN check_packages([result EXCEPT !.missing_packages = Append(@, Head(requirements)),
                                       !.valid = FALSE],
                        Tail(requirements))
    ELSE dependency_error(result, import_module(Head(requirements)))

\* The platform check, which is reached where no exception was raised before
check_platform(result, platforms, system) ==
    IF result.error # Nothing THEN result
    ELSE IF system \notin SeqToSet(platforms)
    THEN [result EXCEPT !.platform_compatible = FALSE, !.valid = FALSE]
    ELSE result

\* The Python version check, which is reached where no exception was raised
\* before; version_info stands for the first three entries of
\* sys.version_info, and the required versions have at most three parts
check_version(result, min_python_version, version_info) ==
    IF result.error # Nothing THEN result
    ELSE IF \E i \in 1..Len(split_dots(min_python_version)) :
                ~is_int(split_dots(min_python_version)[i])
    THEN dependency_error(result, "ValueError")
    ELSE IF tuple_less(version_info, to_ints(split_dots(min_python_version)))
    THEN [result EXCEPT !.python_version_ok = FALSE, !.valid = FALSE]
    ELSE result

\* PluginManager.validate_plugin_dependencies(tool), for the metadata of the
\* tool, platform.system().lower() and sys.version_info
validate_plugin_dependencies(tool_metadata, system, version_info) ==
    check_version(
        check_platform(
            check_packages(DependencyResult(TRUE, <<>>, TRUE, TRUE, Nothing),
                           tool_metadata.requirements),
            tool_metadata.platforms, system),
        tool_metadata.min_python_version, version_info)

\* requirements, platforms and min_python_version of the metadata of a tool
Packages == {"json", "nopackage", "brokenlib"}
Requirements ==
    {<<>>} \cup {<<p>> : p \in Packages} \cup {<<p, q>> : p \in Packages, q \in Packages}
Platforms == {<<"windows", "linux", "darwin">>, <<"windows">>}
MinPythonVersions == {"3.10", "3.12", "4", "3.x"}
\* platform.system().lower() and sys.version_info where the app runs
Systems == {"linux", "windows"}
VersionInfos == {<<3, 11, 4>>, <<3, 9, 18>>}

----------------------------------------------------------------------------
(* ToolRegistry: search_tools                                              *)

\* any(query in keyword.lower() for keyword in tool.metadata.keywords)
any_keyword(query, keywords) ==
    \E i \in 1..Len(keywords) : Contains(lower(keywords[i]), query)

\* A loop body without the continue statements: the tool is appended once
\* for every field that holds the query
hits_every_field(query, tool) ==
    (IF Contains(lower(metadata(tool).name), query) THEN <<tool>> ELSE <<>>)
    \o (IF Contains(lower(metadata(tool).description), query) THEN <<tool>> ELSE <<>>)
    \o (IF any_keyword(query, metadata(tool).keywords) THEN <<tool>> ELSE <<>>)

\* The body of the loop of search_tools for one tool: what it appends to
\* results; query is lowercased already
hits(query, tool) ==
    IF Contains(lower(metadata(tool).name), query) THEN <<tool>>
    ELSE IF Contains(lower(metadata(tool).description), query) THEN <<tool>>
    ELSE IF any_keyword(query, metadata(tool).keywords) THEN <<tool>>
    ELSE <<>>

\* for tool in self.tools.values(), from the k-th key of the dict on
RECURSIVE search_from(_, _, _)
search_from(reg, query, k) ==
    IF k > Len(reg.order) THEN <<>>
    ELSE hits(query, reg.tools[reg.order[k]]) \o search_from(reg, query, k + 1)

\* ToolRegistry.search_tools(query)
search_tools(reg, query) == search_from(reg, lower(query), 1)

\* The classes registered where the registry is searched, and the queries
SearchClasses == {"Scan", "ScanCustom", "Zip", "Calculator"}
Queries == {"", "SCAN", "scan", "Desk", "compress", "arch", "a", "zzz"}

----------------------------------------------------------------------------
(* CommandParser: get_command_history                                      *)

\* s[start:] of Python: a negative start counts from the end, and both are
\* clipped to the list
slice_from(s, start) ==
    LET from == IF start < 0 THEN Max({Len(s) + start, 0}) ELSE Min({start, Len(s)})
    IN SubSeq(s, from + 1, Len(s))

\* CommandParser.get_command_history(limit)
get_command_history(history, limit) == slice_from(history, 0 - limit)

\* The limits get_command_history is called with; 10 is its default
Limits == {0, 1, 3, 10, 120}

----------------------------------------------------------------------------
(* CommandParser: add_custom_pattern                                       *)

\* Custom patterns appended in one behaviour.
MaxCustom == 2

\* CommandParser.add_custom_pattern(pattern)
add_custom_pattern(pats, pattern) == Append(pats, pattern)

\* The patterns callers append: one with the template of a built-in pattern,
\* one whose example phrasing is a command that a built-in pattern matches,
\* and one that matches what no built-in pattern does
CustomPatterns ==
    { [pattern |-> "open {app}", intent |-> "custom", action |-> "launch",
       tool_name |-> "custom_open",
       parameter_mapping |-> <<[entity |-> "app", param |-> "name"]>>,
       examples |-> <<>>],
      [pattern |-> "gimp", intent |-> "custom", action |-> "paint",
       tool_name |-> "gimp_tool",
       parameter_mapping |-> <<>>,
       examples |-> <<"open gimp">>],
      [pattern |-> "scan {file}", intent |-> "custom", action |-> "scan",
       tool_name |-> "scan_tool",
       parameter_mapping |-> <<[entity |-> "file", param |-> "target"]>>,
       examples |-> <<"scan disk">>] }

\* The commands _match_patterns is called with, stripped and lowercased
PatternCommands ==
    {"open gimp", "start open gimp", "scan a.txt", "take screenshot", "zzz"}

----------------------------------------------------------------------------
(* Actions                                                                 *)

\* ToolRegistry.__init__ and PluginManager.__init__
InitRegistry ==
    /\ tools = EmptyMap
    /\ tool_order = <<>>
    /\ categories = EmptyMap
    /\ loaded_modules = EmptyMap
    /\ serial = 0

\* CommandParser.__init__
InitParser ==
    /\ command_history = <<>>
    /\ remembered = 0
    /\ patterns = builtin_patterns

\* The registry and the loader read no flag of the resolver: it is held at
\* the value it has where fuzzywuzzy is installed.
Init ==
    /\ InitRegistry
    /\ InitParser
    /\ FUZZY_AVAILABLE = TRUE
    /\ last = [op |-> "init"]
    /\ app = DesktopMCPApp

\* A caller registers a tool it has built itself: tool_registry.register(tool)
RegisterWith(cls) ==
        /\ serial < MaxInstances
        /\ LET tool == [cls |-> cls, module |-> <<"__main__", "">>,
                        unit |-> "caller", serial |-> serial + 1]
               reg == register(Registry, tool)
           IN /\ tools' = reg.tools
              /\ tool_order' = reg.order
              /\ categories' = reg.categories
              /\ serial' = serial + 1
              /\ last' = [op |-> "register", name |-> MetaName(tool),
                          overwrote |-> MetaName(tool) \in DOMAIN tools]
        /\ UNCHANGED loaded_modules
        /\ UNCHANGED <<parserVars, app>>

Register == \E cls \in CallerClasses : RegisterWith(cls)

\* The loader's state st becomes the program's state, and last records the
\* call with the result dict it returned
Loaded(st, call) ==
    /\ tools' = st.reg.tools
    /\ tool_order' = st.reg.order
    /\ categories' = st.reg.categories
    /\ loaded_modules' = st.loaded_modules
    /\ serial' = st.serial
    /\ last' = [x \in DOMAIN call \cup {"result"} |->
                   IF x = "result" THEN st.result ELSE call[x]]

\* The paths reload_plugin is called with, and the source file of each
ReloadPaths == SourceFiles \cup {PluginDir}
MainFile(path) == IF path = PluginDir THEN PluginMain ELSE path

\* plugin_manager.reload_plugin(plugin_path)
ReloadPluginWith(path, content, id) ==
        /\ serial + Creates(content) <= MaxInstances
        /\ Loaded(reload_plugin(LoaderState, path, content, id),
                  [op |-> "reload", path |-> path, content |-> content,
                   was_loaded |-> MainFile(path) \in DOMAIN loaded_modules])
        /\ UNCHANGED <<parserVars, app>>

ReloadPlugin ==
    \E path \in ReloadPaths, content \in Contents \cup {Missing}, id \in Ids :
        ReloadPluginWith(path, content, id)

\* plugin_manager.discover_and_load_all(), as DesktopMCPApp.initialize calls it
DiscoverAndLoadAll ==
    \E tool_body \in Contents \cup {Missing}, plugin_body \in Contents \cup {Missing},
       tool_id \in Ids, plugin_id \in Ids :
        /\ serial + Creates(tool_body) + Creates(plugin_body) <= MaxInstances
        /\ Loaded(discover_and_load_all(LoaderState,
                                         [body |-> tool_body, id |-> tool_id],
                                         [body |-> plugin_body, id |-> plugin_id]),
                  [op |-> "discover", tool_body |-> tool_body,
                   plugin_body |-> plugin_body])
        /\ UNCHANGED <<parserVars, app>>

Next == Register \/ ReloadPlugin \/ DiscoverAndLoadAll

\* The registry and the loader, under register, reload and discovery
Spec == Init /\ [][Next]_vars

\* command_parser.remember_command(parsed_command); the entry carries the
\* number of the call that remembered it
Remember ==
    /\ remembered < MaxRemember
    /\ command_history' = remember_command(command_history, [n |-> remembered + 1])
    /\ remembered' = remembered + 1
    /\ last' = [op |-> "remember", len_before |-> Len(command_history)]
    /\ UNCHANGED <<registryVars, patterns, FUZZY_AVAILABLE, app>>

InitHistory ==
    /\ InitRegistry
    /\ InitParser
    /\ FUZZY_AVAILABLE \in BOOLEAN
    /\ last = [op |-> "init"]
    /\ app = DesktopMCPApp

NextHistory == Remember

\* The command history under remember_command
SpecHistory == InitHistory /\ [][NextHistory]_vars

----------------------------------------------------------------------------
(* Actions of the Command Resolver                                         *)

\* tool_registry.register(tool) for the tools commands are resolved to
RegisterTool == \E cls \in ResolverClasses : RegisterWith(cls)

\* command_parser.parse_command(command)
ParseCommandWith(command) ==
    /\ last' = [op |-> "parse", command |-> command,
                run |-> parse_command_run(Registry, patterns, command, FUZZY_AVAILABLE)]
    /\ UNCHANGED <<registryVars, parserVars, app>>

ParseCommand == \E command \in Commands : ParseCommandWith(command)

InitResolver ==
    /\ InitRegistry
    /\ InitParser
    /\ FUZZY_AVAILABLE \in BOOLEAN
    /\ last = [op |-> "init"]
    /\ app = DesktopMCPApp

NextResolver == RegisterTool \/ ParseCommand

\* The resolver over a registry that callers fill
SpecResolver == InitResolver /\ [][NextResolver]_vars

\* The commands that are resolved again after their result was remembered
ReuseCommands == {"open blender", "zp", "calculator"}

ParseAgain == \E command \in ReuseCommands : ParseCommandWith(command)

\* self.command_parser.remember_command(parsed_command), as execute_command
\* calls it with the command it has just resolved; last keeps that command
RememberParsed ==
    /\ last.op = "parse"
    /\ remembered < MaxReuse
    /\ command_history' = remember_command(command_history, last.run.result)
    /\ remembered' = remembered + 1
    /\ last' = [last EXCEPT !.op = "remembered"]
    /\ UNCHANGED <<registryVars, patterns, FUZZY_AVAILABLE, app>>

NextReuse == RegisterTool \/ ParseAgain \/ RememberParsed

\* The resolver with a history that fills between its calls
SpecReuse == InitResolver /\ [][NextReuse]_vars

----------------------------------------------------------------------------
(* Actions of a tool that is executed                                      *)

\* A caller has a tool with a descriptor, the arguments of a call, and what
\* the tool's execute does with them
InitTool ==
    /\ InitRegistry
    /\ InitParser
    /\ FUZZY_AVAILABLE = TRUE
    /\ app = DesktopMCPApp
    /\ \E parameters \in Descriptors, kwargs \in Kwargs, outcome \in ExecuteOutcomes :
           last = [op |-> "call", parameters |-> parameters, kwargs |-> kwargs,
                   outcome |-> outcome]

\* tool.validate_parameters(**kwargs)
ValidateParameters ==
    /\ last.op = "call"
    /\ last' = [op |-> "validate_parameters", parameters |-> last.parameters,
                kwargs |-> last.kwargs, outcome |-> last.outcome,
                validation |-> validate_parameters(last.parameters, last.kwargs)]
    /\ UNCHANGED <<registryVars, parserVars, app>>

\* tool.safe_execute(**kwargs)
SafeExecute ==
    /\ last.op = "call"
    /\ last' = [op |-> "safe_execute", parameters |-> last.parameters,
                kwargs |-> last.kwargs, outcome |-> last.outcome,
                run |-> safe_execute(last.parameters, last.kwargs, last.outcome)]
    /\ UNCHANGED <<registryVars, parserVars, app>>

NextTool == ValidateParameters \/ SafeExecute

\* A tool under validation and safe execution
SpecTool == InitTool /\ [][NextTool]_vars

----------------------------------------------------------------------------
(* Actions of the app                                                      *)

\* The app once initialize has returned: the tools are registered, the task
\* of _process_commands is created and running is set
InitApp ==
    /\ tools = AppRegistry.tools
    /\ tool_order = AppRegistry.order
    /\ categories = AppRegistry.categories
    /\ loaded_modules = EmptyMap
    /\ serial = 2
    /\ InitParser
    /\ FUZZY_AVAILABLE \in BOOLEAN
    /\ last = [op |-> "init"]
    /\ app = [DesktopMCPApp EXCEPT !.running = TRUE, !.task = "waiting"]

\* app.queue_command(command, source, callback), by any producer
QueueCommand ==
    \E command \in AppCommands, callback \in Callbacks :
        /\ app.queued < MaxQueued
        /\ app' = [app EXCEPT !.queued = @ + 1,
                              !.command_queue =
                                  Append(@, [command |-> command, callback |-> callback,
                                             n |-> app.queued + 1])]
        /\ last' = [op |-> "queue_command", n |-> app.queued + 1]
        /\ UNCHANGED <<registryVars, parserVars>>

\* _process_commands: the queue is not empty, the task takes a command
GetCommand ==
    /\ app.task = "waiting" /\ loop_check(app)
    /\ app.command_queue # <<>>
    /\ app' = [app EXCEPT !.command_queue = queue_get(app.command_queue).rest,
                          !.command_data = Some(queue_get(app.command_queue).item),
                          !.task = "execute",
                          !.log = Append(@, LogEntry("get", queue_get(app.command_queue).item))]
    /\ last' = [op |-> "get", n |-> queue_get(app.command_queue).item.n]
    /\ UNCHANGED <<registryVars, parserVars>>

\* The state after execute_command has done what done says
CommandExecuted(parsed_command, outcome, done) ==
    /\ app' = [app EXCEPT !.task = IF done.raised THEN "ended" ELSE "callback",
                          !.result = IF done.raised THEN Nothing ELSE Some(done.result),
                          !.execution_history =
                              IF done.record = Nothing THEN @ ELSE Append(@, done.record[1]),
                          !.log = Append(@, LogEntry("executed", app.command_data[1]))]
    /\ command_history' = IF done.remember
                          THEN remember_command(command_history, parsed_command)
                          ELSE command_history
    /\ remembered' = IF done.remember THEN remembered + 1 ELSE remembered
    /\ last' = [op |-> "execute_command", n |-> app.command_data[1].n,
                parsed_command |-> parsed_command, outcome |-> outcome, done |-> done]
    /\ UNCHANGED <<registryVars, patterns, FUZZY_AVAILABLE>>

\* _process_commands: await self.execute_command(command_data["command"], ...)
ExecuteQueued(command, outcome) ==
    CommandExecuted(lookup(app_parses, <<command, FUZZY_AVAILABLE>>), outcome,
                    lookup(app_runs, <<command, FUZZY_AVAILABLE, outcome>>))

ExecuteCommand ==
    /\ app.task = "execute"
    /\ \E outcome \in ExecuteOutcomes :
           ExecuteQueued(app.command_data[1].command, outcome)

\* _process_commands: command_data["callback"](result) where the callback is
\* callable, then the sleep
Callback ==
    /\ app.task = "callback"
    /\ app' = [app EXCEPT !.task = after_callback(app.command_data[1].callback),
                          !.delivered =
                              IF app.command_data[1].callback = "None" THEN @
                              ELSE Append(@, [n |-> app.command_data[1].n,
                                              success |-> app.result[1].success]),
                          !.command_data = Nothing,
                          !.result = Nothing,
                          !.log = Append(@, LogEntry("done", app.command_data[1]))]
    /\ last' = [op |-> "callback", n |-> app.command_data[1].n,
                callback |-> app.command_data[1].callback]
    /\ UNCHANGED <<registryVars, parserVars>>

NextApp == QueueCommand \/ GetCommand \/ ExecuteCommand \/ Callback

\* The app with producers that queue commands and the task that processes
\* them; a producer may run between any two steps of the task
SpecApp == InitApp /\ [][NextApp]_vars

----------------------------------------------------------------------------
(* Actions of the dependency validation                                    *)

\* The tools are registered; a caller has the metadata of the registered
\* tool named tool, and the interpreter it runs on
InitDependencies ==
    /\ tools = AppRegistry.tools
    /\ tool_order = AppRegistry.order
    /\ categories = AppRegistry.categories
    /\ loaded_modules = EmptyMap
    /\ serial = 2
    /\ InitParser
    /\ FUZZY_AVAILABLE = TRUE
    /\ app = DesktopMCPApp
    /\ \E tool \in DOMAIN AppRegistry.tools, requirements \in Requirements,
          platforms \in Platforms, min_python_version \in MinPythonVersions,
          system \in Systems, version_info \in VersionInfos :
           last = [op |-> "call", tool |-> tool,
                   metadata |-> [requirements |-> requirements, platforms |-> platforms,
                                 min_python_version |-> min_python_version],
                   system |-> system, version_info |-> version_info]

\* plugin_manager.validate_plugin_dependencies(tool)
ValidatePluginDependencies ==
    /\ last.op = "call"
    /\ last' = [op |-> "validate_plugin_dependencies", tool |-> last.tool,
                metadata |-> last.metadata, system |-> last.system,
                version_info |-> last.version_info,
                result |-> validate_plugin_dependencies(last.metadata, last.system,
                                                        last.version_info)]
    /\ UNCHANGED <<registryVars, parserVars, app>>

NextDependencies == ValidatePluginDependencies

\* The dependency validation of registered tools
SpecDependencies == InitDependencies /\ [][NextDependencies]_vars

----------------------------------------------------------------------------
(* Actions of a registry that is searched                                  *)

\* tool_registry.register(tool) for the tools that are searched
RegisterSearched == \E cls \in SearchClasses : RegisterWith(cls)

\* tool_registry.search_tools(query)
SearchTools ==
    \E query \in Queries :
        /\ last' = [op |-> "search", query |-> query,
                    result |-> search_tools(Registry, query)]
        /\ UNCHANGED <<registryVars, parserVars, app>>

NextSearch == RegisterSearched \/ SearchTools

\* The registry under register and search_tools
SpecSearch == InitResolver /\ [][NextSearch]_vars

----------------------------------------------------------------------------
(* Actions of a history that is read                                       *)

\* command_parser.get_command_history(limit)
GetCommandHistory ==
    \E limit \in Limits :
        /\ last' = [op |-> "history", limit |-> limit,
                    result |-> get_command_history(command_history, limit)]
        /\ UNCHANGED <<registryVars, parserVars, app>>

NextRecall == Remember \/ GetCommandHistory

\* The command history under remember_command and get_command_history
SpecRecall == InitHistory /\ [][NextRecall]_vars

----------------------------------------------------------------------------
(* Actions of a Pattern Table that grows                                   *)

\* command_parser.add_custom_pattern(pattern)
AddCustomPattern ==
    \E pattern \in CustomPatterns :
        /\ Len(patterns) < Len(builtin_patterns) + MaxCustom
        /\ patterns' = add_custom_pattern(patterns, pattern)
        /\ last' = [op |-> "add_pattern", pattern |-> pattern.pattern]
        /\ UNCHANGED <<registryVars, command_history, remembered,
                       FUZZY_AVAILABLE, app>>

\* self._match_patterns(command), as parse_command calls it
MatchPatterns ==
    \E command \in PatternCommands :
        /\ last' = [op |-> "match", command |-> command,
                    result |-> match_patterns(patterns, command, FUZZY_AVAILABLE)]
        /\ UNCHANGED <<registryVars, parserVars, app>>

NextPatterns == AddCustomPattern \/ MatchPatterns

\* The pattern stage over a Pattern Table that callers extend
SpecPatterns == InitResolver /\ [][NextPatterns]_vars

----------------------------------------------------------------------------
(* Actions of the tool-name stage                                          *)

\* The commands _match_tool_names is called with, stripped and lowercased
ToolNameCommands ==
    {"calc zip", "archive it", "calculator", "zip /tmp/a 3", "files", "zp", "zzz"}

\* self._match_tool_names(command), as parse_command calls it
MatchToolNames ==
    \E command \in ToolNameCommands :
        /\ last' = [op |-> "match_tools", command |-> command,
                    result |-> match_tool_names(Registry, command, FUZZY_AVAILABLE)]
        /\ UNCHANGED <<registryVars, parserVars, app>>

NextToolNames == RegisterTool \/ MatchToolNames

\* The tool-name stage over a registry that callers fill
SpecToolNames == InitResolver /\ [][NextToolNames]_vars

----------------------------------------------------------------------------
(* Actions of the parameter inference                                      *)

\* The classes registered where parameters are inferred, and the commands
InferClasses == {"Zip", "Pack"}
InferCommands == {"zip /tmp/a 3", "pack 3", "archive it"}

\* tool_registry.register(tool) for the tools whose parameters are inferred
RegisterInferred == \E cls \in InferClasses : RegisterWith(cls)

\* self._match_tool_names(command), which ends in self._infer_parameters
InferParameters ==
    \E command \in InferCommands :
        /\ last' = [op |-> "infer", command |-> command,
                    result |-> match_tool_names(Registry, command, FUZZY_AVAILABLE)]
        /\ UNCHANGED <<registryVars, parserVars, app>>

NextInfer == RegisterInferred \/ InferParameters

\* The tool-name stage with its parameter inference
SpecInfer == InitResolver /\ [][NextInfer]_vars

----------------------------------------------------------------------------
(* Actions of the app that is shut down                                    *)

\* app.shutdown()
Shutdown ==
    /\ app.running
    /\ app' = shutdown(app)
    /\ last' = [op |-> "shutdown"]
    /\ UNCHANGED <<registryVars, parserVars>>

\* _process_commands: while self.running, read after the sleep with running
\* False; the coroutine returns
StopProcessing ==
    /\ app.task = "waiting" /\ ~loop_check(app)
    /\ app' = [app EXCEPT !.task = "stopped"]
    /\ last' = [op |-> "stopped"]
    /\ UNCHANGED <<registryVars, parserVars>>

NextShutdown ==
    QueueCommand \/ GetCommand \/ ExecuteCommand \/ Callback
        \/ Shutdown \/ StopProcessing

\* The app from initialize to shutdown. The event loop runs a task that is
\* ready: the steps of the task of _process_commands are taken in the end.
SpecShutdown ==
    /\ InitApp /\ [][NextShutdown]_vars
    /\ WF_vars(GetCommand) /\ WF_vars(ExecuteCommand) /\ WF_vars(Callback)
    /\ WF_vars(StopProcessing)

----------------------------------------------------------------------------
(* Tool Registry and Plugin Loader: properties                             *)

\* The names in the category index
IndexNames == UNION {SeqToSet(categories[c]) : c \in DOMAIN categories}

\* C1: after any sequence of register and reload operations the names in
\* the category index are exactly the names in the primary mapping.
C1_IndexMatchesMapping == IndexNames = DOMAIN tools

\* C2: reloading a loaded unit removes exactly the names the unit has in the
\* registry before the fresh load runs, and every capability registered by
\* another unit is afterwards still registered as the same instance.
C2_ReloadRemovesExactlyTheUnit ==
    [][\A path \in ReloadPaths, content \in Contents \cup {Missing}, id \in Ids :
          (ReloadPluginWith(path, content, id)
              /\ MainFile(path) \in DOMAIN loaded_modules)
          => /\ tools_to_remove(LoaderState, path)
                  = {n \in DOMAIN tools : tools[n].unit = MainFile(path)}
             /\ \A n \in DOMAIN tools :
                  tools[n].unit # MainFile(path)
                  => n \in DOMAIN tools' /\ tools'[n] = tools[n]]_vars

\* C3: after a successful reload of a unit that was loaded earlier, given by
\* its file path or by its plugin directory, no instance an earlier load of
\* the unit created is left in the registry.
C3_NoOldInstanceAfterReload ==
    [][\A path \in ReloadPaths, content \in Contents \cup {Missing}, id \in Ids :
          (ReloadPluginWith(path, content, id)
              /\ MainFile(path) \in DOMAIN loaded_modules
              /\ last'.result.success)
          => \A n \in DOMAIN tools' :
                ~(tools'[n].unit = MainFile(path) /\ tools'[n].serial <= serial)]_vars

AllCategories == {ClassTable[c].category : c \in ToolClasses}

\* C4: every registered capability c is what get(c.name) returns, and
\* list_by_category returns it for exactly one category, its own.
C4_ListedUnderOwnCategoryOnly ==
    \A n \in DOMAIN tools :
        /\ get_tool(Registry, n) = tools[n]
        /\ MetaName(tools[n]) = n
        /\ {cat \in AllCategories :
               tools[n] \in SeqToSet(get_tools_by_category(Registry, cat))}
             = {MetaCategory(tools[n])}

\* C5: registering a capability under a name that is already registered
\* does not fail, leaves the number of registered names unchanged and makes
\* get(name) return the new instance instead of the prior one.
C5_ReRegisterOverwrites ==
    [][\A cls \in CallerClasses :
          (RegisterWith(cls) /\ ClassTable[cls].name \in DOMAIN tools)
          => /\ Cardinality(DOMAIN tools') = Cardinality(DOMAIN tools)
             /\ get_tool(Registry', ClassTable[cls].name) # tools[ClassTable[cls].name]
             /\ get_tool(Registry', ClassTable[cls].name).cls = cls
             /\ get_tool(Registry', ClassTable[cls].name).serial = serial + 1]_vars

\* A name was registered again and the registry holds the new instance.
C5_Witness ==
    /\ last.op = "register"
    /\ last.overwrote
    /\ tools[last.name].serial = serial

----------------------------------------------------------------------------
(* Plugin Loader: properties of a discovery pass                           *)

\* The names of the tools the classes of a unit give once they are
\* constructed, and the constructors of the unit that raise
Constructed(body) ==
    IF body \in {Malformed, Missing} THEN {}
    ELSE {ClassTable[body[i]].name : i \in {j \in 1..Len(body) : ~ClassTable[body[j]].raises}}
Throwing(body) ==
    IF body \in {Malformed, Missing} THEN {}
    ELSE {i \in 1..Len(body) : ClassTable[body[i]].raises}

\* C17: where two units define a tool of the same name, loading or reloading
\* either raises nothing and reports no error, and get_tool(name) is then the
\* instance the unit loaded last has just created.
C17_LastLoadWins ==
    [][/\ (/\ last'.op = "discover"
           /\ "scan" \in Constructed(last'.tool_body)
           /\ "scan" \in Constructed(last'.plugin_body))
          => /\ last'.result.errors = <<>>
             /\ last'.result.tools_loaded = 1 /\ last'.result.plugins_loaded = 1
             /\ get_tool(Registry, "scan")' # None
             /\ tools'["scan"].unit = PluginMain
             /\ tools'["scan"].serial = serial'
       /\ (/\ last'.op = "reload"
           /\ "scan" \in Constructed(last'.content)
           /\ "scan" \in DOMAIN tools
           /\ tools["scan"].unit \in SourceFiles \ {MainFile(last'.path)})
          => /\ last'.result.success
             /\ last'.result.error = None
             /\ last'.result.tools_reloaded = 1
             /\ get_tool(Registry, "scan")' # None
             /\ tools'["scan"].unit = MainFile(last'.path)
             /\ tools'["scan"].serial = serial']_vars

\* The tool of the plugin is registered, and the file of the tools directory,
\* which defines the same name, has been reloaded after it
C17_Witness ==
    /\ last.op = "reload"
    /\ last.path \in ToolFiles
    /\ last.result.success /\ last.result.tools_reloaded = 1
    /\ PluginMain \in DOMAIN loaded_modules
    /\ "scan" \in DOMAIN tools
    /\ tools["scan"].unit = last.path
    /\ tools["scan"].serial = MaxInstances

\* C18: a constructor that raises does not keep the other classes of its
\* unit from being instantiated and registered, a malformed unit does not
\* keep the other unit from being loaded, and discover_and_load_all returns
\* its result.
C18_FailureIsConfined ==
    last.op = "discover"
    => /\ DOMAIN last.result =
              {"tools_loaded", "plugins_loaded", "errors", "tools", "plugins"}
       /\ Constructed(last.tool_body) = SeqToSet(last.result.tools)
       /\ \A name \in Constructed(last.tool_body) :
              /\ name \in DOMAIN tools
              /\ tools[name].unit = py_file \/ name \in Constructed(last.plugin_body)
       /\ \A name \in Constructed(last.plugin_body) :
              /\ name \in DOMAIN tools
              /\ tools[name].unit = PluginMain

\* A discovery where a constructor of the file of the tools directory has
\* raised and the plugin is malformed: the other class of the file is
\* registered
C18_Witness ==
    /\ last.op = "discover"
    /\ Throwing(last.tool_body) # {}
    /\ last.plugin_body = Malformed
    /\ last.result.tools = <<"zip">>
    /\ "zip" \in DOMAIN tools
    /\ tools["zip"].unit = py_file

\* C19: the errors of the result of discover_and_load_all hold an entry for
\* every unit that fails to load and for every constructor that raises, and
\* the counts are those of the tools that were registered.
C19_EveryFailureRecorded ==
    last.op = "discover"
    => /\ Len(last.result.errors) =
              (IF last.tool_body = Malformed THEN 1 ELSE 0)
                + (IF last.plugin_body = Malformed THEN 1 ELSE 0)
                + Cardinality(Throwing(last.tool_body))
                + Cardinality(Throwing(last.plugin_body))
       /\ last.result.tools_loaded = Cardinality(Constructed(last.tool_body))
       /\ last.result.plugins_loaded = Cardinality(Constructed(last.plugin_body))

----------------------------------------------------------------------------
(* Plugin Loader: properties of the dependency validation                  *)

\* C20: validate_plugin_dependencies raises nothing, leaves the registry as
\* it is (the tool stays registered), and its result has valid = True
\* exactly when missing_packages is empty, platform_compatible is True and
\* python_version_ok is True.
C20_ValidExactlyWhenAllChecksPass ==
    last.op = "validate_plugin_dependencies"
    => /\ Registry = AppRegistry
       /\ last.tool \in DOMAIN tools
       /\ last.result.valid
            <=> /\ last.result.missing_packages = <<>>
                /\ last.result.platform_compatible
                /\ last.result.python_version_ok

----------------------------------------------------------------------------
(* Command Resolver: properties                                            *)

\* The latest operation resolved a command that is not empty once trimmed
Parsed == last.op = "parse" /\ strip(last.command) # ""
\* Its normalized command, its stage candidates and what it returned
LastCommand == normalize(last.command)
PatternCandidate == pattern_stage(patterns, LastCommand, FUZZY_AVAILABLE)
ToolCandidate == match_tool_names(Registry, LastCommand, FUZZY_AVAILABLE)
Returned == last.run.result
HigherConfidence == Max({PatternCandidate.confidence, ToolCandidate.confidence})

\* C6: for every non-empty input the ParsedCommand returned is the candidate
\* of the higher confidence among the pattern-stage and the tool-name-stage
\* candidate: the tool-name candidate whenever it scores strictly higher,
\* with the maximum of the two confidences (0.0 when that is below 0.3).
C6_ReturnsHigherConfidence ==
    Parsed =>
        /\ (ToolCandidate.confidence > PatternCandidate.confidence
               => Returned = ToolCandidate)
        /\ Returned.confidence =
               (IF HigherConfidence < 30 THEN 0 ELSE HigherConfidence)

\* C6, amended: a pattern-stage candidate of confidence above 0.7 is returned
\* as it is, without the tool-name stage; otherwise the tool-name candidate
\* is returned whenever it scores strictly higher, and the confidence
\* returned is the maximum of the two (0.0 when that is below 0.3).
C6_PatternFirstThenHigher ==
    Parsed =>
        IF PatternCandidate.confidence > 70
        THEN Returned = PatternCandidate /\ last.run.stages = <<"pattern">>
        ELSE /\ (ToolCandidate.confidence > PatternCandidate.confidence
                    => Returned = ToolCandidate)
             /\ Returned.confidence =
                    (IF HigherConfidence < 30 THEN 0 ELSE HigherConfidence)

\* A command was resolved to its pattern candidate although the tool-name
\* stage would have scored higher.
C6_Witness ==
    /\ Parsed
    /\ PatternCandidate.confidence > 70
    /\ ToolCandidate.confidence > PatternCandidate.confidence
    /\ Returned = PatternCandidate

\* The structural match of a built-in pattern on the latest command
StructuralMatch(pattern) == re_search(convert_pattern_to_regex(pattern), LastCommand)

\* C7: an input that structurally matches 'open {app}', the example
\* phrasings included, resolves to open_application with confidence >= 0.9
\* and parameters exactly {app_name: the captured text}; an input matching
\* 'take screenshot' resolves to take_screenshot with confidence >= 0.9 and
\* empty parameters.
C7_OpenAppParameters ==
    Parsed =>
        /\ StructuralMatch("open {app}").matched
              => /\ Returned.tool_name = Some("open_application")
                 /\ Returned.confidence >= 90
                 /\ Returned.parameters =
                        Some(<<[k |-> "app_name",
                                v |-> StructuralMatch("open {app}").groups[1]]>>)
        /\ (StructuralMatch("take screenshot").matched
               /\ ~StructuralMatch("open {app}").matched)
              => /\ Returned.tool_name = Some("take_screenshot")
                 /\ Returned.confidence >= 90
                 /\ Returned.parameters = Some(<<>>)

\* The options _suggest_alternatives chooses from
Options == SeqToSet(tool_order) \cup SeqToSet(common_commands)

\* C8: when no stage produces a candidate of confidence >= 0.3 for a
\* non-empty input, the result is unknown/help with confidence 0.0 and no
\* tool, and alternatives holds at most 3 suggestions, each a registered name
\* or a fixed example command, each of similarity above 0.6 to the input, in
\* descending similarity; it is empty when no option exceeds that similarity.
C8_FallbackSuggestions ==
    (Parsed /\ HigherConfidence < 30) =>
        /\ Returned.intent = "unknown"
        /\ Returned.action = "help"
        /\ Returned.confidence = 0
        /\ Returned.tool_name = Nothing
        /\ Returned.alternatives # Nothing
        /\ LET alternatives == Returned.alternatives[1]
           IN /\ Len(alternatives) <= 3
              /\ \A i \in 1..Len(alternatives) :
                    /\ alternatives[i] \in Options
                    /\ extract_score(LastCommand, alternatives[i]) > 60
              /\ \A i \in 1..(Len(alternatives) - 1) :
                    extract_score(LastCommand, alternatives[i])
                        >= extract_score(LastCommand, alternatives[i + 1])
              /\ (\A o \in Options : score_of(LastCommand, o) <= 60)
                    => alternatives = <<>>

\* The fallback was taken and a registered name is among the suggestions.
C8_Witness ==
    /\ Parsed
    /\ HigherConfidence < 30
    /\ Returned.action = "help"
    /\ Returned.alternatives # Nothing
    /\ \E i \in 1..Len(Returned.alternatives[1]) :
          Returned.alternatives[1][i] \in DOMAIN tools

\* C9: an input that is empty or only whitespace resolves at once to intent
\* unknown with confidence 0.0, no tool_name and empty entities, and no
\* stage runs.
C9_EmptyInputUnknown ==
    (last.op = "parse" /\ strip(last.command) = "") =>
        /\ Returned.intent = "unknown"
        /\ Returned.confidence = 0
        /\ Returned.tool_name = Nothing
        /\ Returned.entities = <<>>
        /\ last.run.stages = <<>>

\* A command of whitespace only was resolved.
C9_Witness ==
    /\ last.op = "parse"
    /\ last.command = "  "
    /\ Returned.action = "none"

\* C24: on a structural match of a pattern with several placeholders, each
\* placeholder's captured text is bound to its own entity and every entry of
\* the pattern's parameter mapping produces its parameter: an input matching
\* 'copy {file} to {path}' resolves to copy_files with source_path set to the
\* first captured token and destination_path set to the second.
C24_EveryPlaceholderMapped ==
    Parsed /\ StructuralMatch("copy {file} to {path}").matched =>
        LET groups == StructuralMatch("copy {file} to {path}").groups
        IN /\ Returned.tool_name = Some("copy_files")
           /\ Returned.parameters # Nothing
           /\ has_key(Returned.parameters[1], "source_path")
           /\ get_item(Returned.parameters[1], "source_path") = groups[1]
           /\ has_key(Returned.parameters[1], "destination_path")
           /\ get_item(Returned.parameters[1], "destination_path") = groups[2]

\* C28: the confidence of every ParsedCommand that resolve returns is exactly
\* 0.0, or at least 0.6 and at most 1.0: no stage gives a value strictly
\* between 0 and 0.6, so the fallback below 0.3 is taken only when the
\* candidates of the pattern stage and of the tool-name stage both have
\* confidence 0.0; and, with no NLP annotator, every result with a confidence
\* above 0 carries a tool_name.
C28_ConfidenceZeroOrAtLeastSixty ==
    last.op = "parse" =>
        /\ Returned.confidence = 0 \/ Returned.confidence \in 60..100
        /\ Parsed =>
               /\ PatternCandidate.confidence \in {0} \cup (60..100)
               /\ ToolCandidate.confidence \in {0} \cup (60..100)
        /\ Returned.action = "help" =>
               /\ PatternCandidate.confidence = 0
               /\ ToolCandidate.confidence = 0
        /\ Returned.confidence > 0 => Returned.tool_name # Nothing

\* A command whose similarity to the name of a registered tool is above 0 and
\* below 0.6, with similarity scoring available: it counts for nothing, both
\* candidates have confidence 0.0 and the fallback is returned.
C28_Witness ==
    /\ Parsed
    /\ LastCommand = "zzz"
    /\ FUZZY_AVAILABLE
    /\ "zip" \in DOMAIN tools
    /\ partial_ratio("zzz", "zip") \in 1..59
    /\ PatternCandidate.confidence = 0
    /\ ToolCandidate.confidence = 0
    /\ Returned.action = "help"
    /\ Returned.confidence = 0

\* A reload of a unit that was loaded, called with its file path, whose new
\* source is malformed or gone
FailedReload ==
    /\ last.op = "reload"
    /\ last.path \in SourceFiles
    /\ last.was_loaded
    /\ last.content \in {Malformed, Missing}

\* C30: a reload that fails is reported and not rolled back: reload_plugin,
\* called with the file path of a unit that was loaded and whose new source
\* is malformed or no longer there, returns success False with an error
\* message, and no tool the unit had registered before the reload is left in
\* registry.tools.
C30_FailedReloadNotRolledBack ==
    FailedReload
        => /\ ~last.result.success
           /\ last.result.error # None
           /\ \A n \in DOMAIN tools : tools[n].unit # last.path

----------------------------------------------------------------------------
(* Tools: properties of validation and safe execution                      *)

\* The value the call passes for the i-th declared parameter
Passed(i) == kwargs_get(last.kwargs, last.parameters[i].name)

\* The declared parameters whose value violates a rule
Violating == {i \in 1..Len(last.parameters) : ~validate(last.parameters[i], Passed(i)).ok}

\* The four rules of a call: a required parameter is absent, a number is
\* outside [min_value, max_value], a string does not match its pattern, a
\* key is not declared
RequiredAbsent(i) == last.parameters[i].required /\ Passed(i) = NoneVal
OutOfRange(i) ==
    /\ last.parameters[i].type \in {"integer", "float"}
    /\ Passed(i).kind \in {"int", "float"}
    /\ \/ last.parameters[i].min_value # Nothing
          /\ Passed(i).num < last.parameters[i].min_value[1]
       \/ last.parameters[i].max_value # Nothing
          /\ Passed(i).num > last.parameters[i].max_value[1]
PatternViolated(i) ==
    /\ last.parameters[i].type = "string"
    /\ last.parameters[i].pattern # Nothing
    /\ Passed(i).kind = "str"
    /\ ~re_match(last.parameters[i].pattern[1], Passed(i).str)
Undeclared == DOMAIN last.kwargs \ {last.parameters[i].name : i \in 1..Len(last.parameters)}
UndeclaredError == Message("Unexpected parameters: ", <<>>, Undeclared)

RuleViolated ==
    \/ \E i \in 1..Len(last.parameters) :
           RequiredAbsent(i) \/ OutOfRange(i) \/ PatternViolated(i)
    \/ Undeclared # {}

\* The errors of the rules the call violates
ViolationErrors ==
    {validate(last.parameters[i], Passed(i)).error[1] : i \in Violating}
      \cup (IF Undeclared # {} THEN {UndeclaredError} ELSE {})

\* C12: when safe_execute is called with arguments that violate a rule (a
\* required parameter absent, a number outside [min_value, max_value], a
\* string that does not match its pattern, a key that is not declared), it
\* returns a failed ToolResult whose error is the error of a rule the
\* arguments violate, and execute is not called.
C12_ViolationFailsWithoutExecuting ==
    last.op = "safe_execute" /\ RuleViolated
    => /\ ~last.run.result.success
       /\ ~last.run.executed
       /\ last.run.result.error # Nothing
       /\ last.run.result.error[1] \in ViolationErrors

\* A call that violates the pattern rule alone, for a tool whose execute
\* would have succeeded
C12_Witness ==
    /\ last.op = "safe_execute"
    /\ ~last.outcome.raises /\ last.outcome.result.success
    /\ \E i \in 1..Len(last.parameters) : PatternViolated(i) /\ Violating = {i}
    /\ Undeclared = {}
    /\ ~last.run.result.success /\ ~last.run.executed
    /\ ViolationErrors = {last.run.result.error[1]}

\* C13: validate_parameters reports one error: that of the first declared
\* parameter, in the order of the descriptor, whose value violates a rule;
\* the undeclared keys are reported only when every declared parameter
\* passes, and then all of them in one error.
C13_FirstViolationThenUndeclared ==
    last.op = "validate_parameters"
    => IF Violating # {}
       THEN last.validation = validate(last.parameters[Min(Violating)], Passed(Min(Violating)))
       ELSE IF Undeclared # {}
       THEN last.validation = [ok |-> FALSE, error |-> Some(UndeclaredError)]
       ELSE last.validation = Valid

\* Two declared parameters violate a rule and two keys are undeclared: the
\* error is the first parameter's
C13_Witness ==
    /\ last.op = "validate_parameters"
    /\ Violating = {1, 2}
    /\ Undeclared = UndeclaredKeys
    /\ validate(last.parameters[1], Passed(1)) # validate(last.parameters[2], Passed(2))
    /\ last.validation = validate(last.parameters[1], Passed(1))

\* C14: safe_execute returns a ToolResult and raises nothing; when execute
\* raises, the ToolResult has success = False and its error holds the text
\* of the exception.
C14_SafeExecuteContainsExceptions ==
    last.op = "safe_execute"
    => /\ ~last.run.raised
       /\ DOMAIN last.run.result = {"success", "message", "error"}
       /\ last.run.result.success \in BOOLEAN
       /\ (last.run.executed /\ last.outcome.raises
             => /\ ~last.run.result.success
                /\ last.run.result.error # Nothing
                /\ Contains(last.run.result.error[1].text, last.outcome.text))

\* Valid arguments, and an execute that raises
C14_Witness ==
    /\ last.op = "safe_execute"
    /\ Violating = {} /\ Undeclared = {}
    /\ last.outcome.raises
    /\ last.run.executed
    /\ ~last.run.result.success
    /\ last.run.result.error = Some(Message("Tool execution failed: boom", <<>>, {}))

----------------------------------------------------------------------------
(* The app: properties of command processing                               *)

\* The cases of a command that was executed: it was not understood, it was
\* resolved to a tool the registry does not hold, its parameters fail the
\* validation of the tool, the tool's execute raises
Unintelligible == last.parsed_command.confidence < 30
ResolvedTool == last.parsed_command.tool_name[1]
ToolAbsent ==
    /\ ~Unintelligible
    /\ last.parsed_command.tool_name # Nothing
    /\ ResolvedTool \notin DOMAIN tools
ToolReached ==
    /\ ~Unintelligible
    /\ last.parsed_command.tool_name # Nothing
    /\ ResolvedTool \in DOMAIN tools
FailsValidation ==
    /\ ToolReached
    /\ ~validate_parameters(parameters_of(tools[ResolvedTool]),
                            to_kwargs(last.parsed_command.parameters[1])).ok
ToolRaises == ToolReached /\ ~FailsValidation /\ last.outcome.raises

\* C15: execute_command raises nothing and returns a result with success =
\* False for a command that is not understood, that is resolved to a tool
\* absent from the registry, that fails validation or whose tool raises; and
\* an exception of a callback does not end the task that processes the queue.
C15_NoFailureEscapes ==
    /\ app.task # "ended"
    /\ (last.op = "callback" => app.task = "waiting")
    /\ (last.op = "execute_command"
          => /\ ~last.done.raised
             /\ app.result # Nothing
             /\ app.result[1] = last.done.result
             /\ DOMAIN app.result[1] = {"success", "error", "result", "parsed_command"}
             /\ (Unintelligible \/ ToolAbsent \/ FailsValidation \/ ToolRaises
                   => ~app.result[1].success))

\* The callback of the first command has raised, and the task has gone on to
\* the second command, whose tool has raised
C15_Witness ==
    /\ last.op = "execute_command"
    /\ last.n = 2
    /\ ToolRaises
    /\ ~app.result[1].success
    /\ app.log[3].step = "done" /\ app.log[3].n = 1 /\ app.log[3].callback = "raises"

\* The steps of the task on the commands, in the order they were queued
Steps == <<"get", "executed", "done">>

\* C16: the queued commands are processed one at a time in the order they
\* were queued: the task takes a command only when the execution and the
\* callback of every command queued before it are done.
C16_OneAtATimeInQueueOrder ==
    /\ \A i \in 1..Len(app.log) :
           /\ app.log[i].n = ((i - 1) \div 3) + 1
           /\ app.log[i].step = Steps[((i - 1) % 3) + 1]
    /\ \A i \in 1..Len(app.delivered) : \A j \in 1..Len(app.delivered) :
           i < j => app.delivered[i].n < app.delivered[j].n

\* Two commands were in the queue when the task took the first, and both
\* are done
C16_Witness ==
    /\ last.op = "callback"
    /\ Len(app.log) = 6
    /\ app.log[1].n = 1 /\ app.log[1].waiting = 2
    /\ app.log[4].n = 2
    /\ Len(app.delivered) = 2
    /\ app.command_queue = <<>>

\* The tool was reached with parameters that pass and its execute returned a
\* result with success False
ToolFails ==
    ToolReached /\ ~FailsValidation /\ ~last.outcome.raises /\ ~last.outcome.result.success

\* The step is one of execute_command
ExecuteStep == app.task = "execute" /\ app'.task # "execute"

\* C27: the app appends a ParsedCommand to the history of the resolver exactly
\* once for each command whose tool returned success = True, and never for a
\* command that was not understood, that named a tool absent from the
\* registry, that failed the validation or whose execution failed.
C27_RememberedOncePerSuccess ==
    [][/\ ExecuteStep /\ app'.result[1].success
           => /\ command_history' = Append(command_history, last'.parsed_command)
              /\ remembered' = remembered + 1
       /\ ExecuteStep /\ ~app'.result[1].success
           => UNCHANGED <<command_history, remembered>>
       /\ ExecuteStep /\ (Unintelligible' \/ ToolAbsent' \/ FailsValidation'
                             \/ ToolRaises' \/ ToolFails')
           => UNCHANGED <<command_history, remembered>>
       /\ ~ExecuteStep => UNCHANGED <<command_history, remembered>>]_vars

\* The first command reached its tool and failed, the second has just
\* succeeded: the history holds the second only.
C27_Witness ==
    /\ last.op = "execute_command"
    /\ last.n = 2
    /\ app.result[1].success
    /\ Len(app.execution_history) = 2
    /\ ~app.execution_history[1].success
    /\ command_history = <<last.parsed_command>>
    /\ remembered = 1

\* The numbers of the commands that were queued; the entries of the log for
\* a step on the n-th; the callbacks invoked for it
QueuedNumbers == 1..app.queued
LogOf(step, n) ==
    {i \in 1..Len(app.log) : app.log[i].step = step /\ app.log[i].n = n}
DeliveredOf(n) == {i \in 1..Len(app.delivered) : app.delivered[i].n = n}
InQueue(n) == \E i \in 1..Len(app.command_queue) : app.command_queue[i].n = n

\* The n-th command was executed, and its callback, if it has one, invoked
Processed(n) ==
    /\ LogOf("executed", n) # {} /\ LogOf("done", n) # {}
    /\ \A i \in LogOf("done", n) :
           app.log[i].callback # "None" => DeliveredOf(n) # {}

\* No command is executed twice, no callback invoked twice, none invoked
\* where none was given, and what a callback gets is the result
AtMostOnce ==
    \A n \in QueuedNumbers :
        /\ Cardinality(LogOf("get", n)) <= 1
        /\ Cardinality(LogOf("executed", n)) <= 1
        /\ Cardinality(DeliveredOf(n)) <= 1
        /\ \A i \in LogOf("get", n) :
               app.log[i].callback = "None" => DeliveredOf(n) = {}
        /\ (app.task = "callback" /\ app.command_data[1].n = n)
               => app.result # Nothing

\* C29: once initialize has started the task of _process_commands, and for as
\* long as the app stays running, every command put on the queue is taken
\* from it and executed in the end, exactly once, and its callback, where one
\* was given, is invoked exactly once with the result; once shutdown has set
\* running to False the task stops at its next loop check, and the commands
\* still on the queue are never executed.
C29_ProcessedWhileRunning ==
    /\ []AtMostOnce
    /\ \A n \in 1..MaxQueued :
           (n \in QueuedNumbers) ~> (Processed(n) \/ ~app.running)
    /\ \A n \in 1..MaxQueued :
           [](n \in QueuedNumbers /\ app.running /\ app.task = "waiting"
                 => InQueue(n) \/ Processed(n))
    /\ [][app.task = "callback" /\ app'.task # "callback"
              /\ app.command_data[1].callback # "None"
            => app'.delivered =
                   Append(app.delivered, [n |-> app.command_data[1].n,
                                          success |-> app.result[1].success])]_vars
    /\ (~app.running) ~> (app.task = "stopped")
    /\ [][~app.running => \A n \in QueuedNumbers : InQueue(n) => InQueue(n)']_vars
    /\ [][app.task = "stopped" =>
              /\ app'.task = "stopped"
              /\ app'.log = app.log
              /\ app'.delivered = app.delivered]_vars

\* The app was shut down with the first command processed and the second on
\* the queue; the task has stopped and the second command is still there.
C29_Witness ==
    /\ app.task = "stopped"
    /\ ~app.running
    /\ app.queued = 2
    /\ Processed(1)
    /\ InQueue(2)
    /\ LogOf("get", 2) = {}

----------------------------------------------------------------------------
(* Tool Registry: properties of search                                     *)

\* The fields of a tool that search looks at
SearchedFields(tool) ==
    {metadata(tool).name, metadata(tool).description}
        \cup SeqToSet(metadata(tool).keywords)

\* Some field of the tool contains the query when case is ignored
FieldsHolding(tool, query) ==
    {f \in SearchedFields(tool) : Contains(lower(f), lower(query))}

\* C21: search(query) returns exactly the registered tools whose name,
\* description or some keyword contains the query when case is ignored, and
\* each of them once, however many of its fields match.
C21_SearchExactlyOnce ==
    last.op = "search" =>
        /\ SeqToSet(last.result) =
               {tools[n] : n \in {x \in DOMAIN tools :
                                     FieldsHolding(tools[x], last.query) # {}}}
        /\ \A i, j \in 1..Len(last.result) :
               i # j => last.result[i] # last.result[j]

\* A search in capitals for a word that the name, the description and a
\* keyword of one registered tool hold in small letters, with another tool
\* registered that does not hold it: the one tool is returned, once.
C21_Witness ==
    /\ last.op = "search"
    /\ last.query = "SCAN"
    /\ DOMAIN tools = {"scan", "zip"}
    /\ Cardinality(FieldsHolding(tools["scan"], "SCAN")) = 3
    /\ last.result = <<tools["scan"]>>

----------------------------------------------------------------------------
(* Command Resolver: properties of the pattern stage                       *)

\* The patterns of the table that match the command structurally
Structural(command) ==
    {k \in 1..Len(patterns) : StructuralMatch(patterns[k])}
Matching == {k \in 1..Len(patterns) :
                re_search(convert_pattern_to_regex(patterns[k].pattern),
                          last.command).matched}

\* The similarities above 0.8 of the examples of the k-th pattern
Similarities(k) ==
    IF FUZZY_AVAILABLE
    THEN {s \in {fuzz_ratio(last.command, lower(patterns[k].examples[i])) :
                    i \in 1..Len(patterns[k].examples)} : s > 80}
    ELSE {}

\* The highest confidence the k-th pattern gives the command, 0 for none
Candidate(k) ==
    Max({0} \cup (IF k \in Matching THEN {90} ELSE {}) \cup Similarities(k))

\* The candidate has the intent, the action and the tool of the k-th pattern
ComesFrom(result, k) ==
    /\ result.intent = patterns[k].intent
    /\ result.action = patterns[k].action
    /\ result.tool_name = Some(patterns[k].tool_name)

\* No appended pattern gives the command more confidence than the built-in
\* patterns do, which give it some: their candidate is the one returned
NeverDisplaced(builtin_result) ==
    /\ builtin_result.confidence > 0
    /\ \A k \in (Len(builtin_patterns) + 1)..Len(patterns) :
           Candidate(k) <= builtin_result.confidence
    => last.result = builtin_result

\* C23 as it is stated: when an input structurally matches several patterns,
\* the pattern-stage candidate comes from the earliest-declared of them, and
\* a pattern appended later never displaces an earlier one that matches the
\* input with equal confidence.
C23_EarliestStructuralMatchWins ==
    last.op = "match" =>
        /\ Cardinality(Matching) >= 2 => ComesFrom(last.result, Min(Matching))
        /\ NeverDisplaced(match_patterns(builtin_patterns, last.command,
                                         FUZZY_AVAILABLE))

\* C23, amended: the pattern-stage candidate has the highest confidence among
\* the structural matches (0.9) and the example similarities above 0.8, and
\* comes from the earliest-declared pattern that gives that confidence; so
\* when an input structurally matches several patterns and no example is more
\* than 0.9 similar to it, the candidate comes from the earliest-declared
\* matching pattern, and a pattern appended later never displaces an earlier
\* one that gives the input an equal confidence.
C23_HighestThenEarliestWins ==
    last.op = "match" =>
        LET best == Max({Candidate(k) : k \in 1..Len(patterns)})
        IN /\ last.result.confidence = best
           /\ best > 0 =>
                  ComesFrom(last.result,
                            Min({k \in 1..Len(patterns) : Candidate(k) = best}))
           /\ Cardinality(Matching) >= 2 /\ best = 90 =>
                  ComesFrom(last.result, Min(Matching))
           /\ NeverDisplaced(match_patterns(builtin_patterns, last.command,
                                            FUZZY_AVAILABLE))

\* A command that the first built-in pattern and an appended pattern with the
\* same template both match: the candidate is the built-in pattern's.
C23_Witness ==
    /\ last.op = "match"
    /\ last.command = "open gimp"
    /\ Len(patterns) > Len(builtin_patterns)
    /\ patterns[Len(patterns)].tool_name = "custom_open"
    /\ {1, Len(patterns)} \subseteq Matching
    /\ last.result.confidence = 90
    /\ last.result.tool_name = Some("open_application")

----------------------------------------------------------------------------
(* Command Resolver: properties of the tool-name stage                     *)

\* The name of the tool is contained in the command; a keyword of it is
NameContained(name) == Contains(last.command, lower(name))
KeywordContained(name) ==
    \E i \in 1..Len(metadata(tools[name]).keywords) :
        Contains(last.command, lower(metadata(tools[name]).keywords[i]))

\* The partial similarity of the command to the name or to the description
Similarity(name) ==
    Max({partial_ratio(last.command, lower(name)),
         partial_ratio(last.command, lower(metadata(tools[name]).description))})

\* The score of a registered tool on the command, 0 when nothing scores
Score(name) ==
    Max({0} \cup (IF NameContained(name) THEN {80} ELSE {})
            \cup (IF KeywordContained(name) THEN {60} ELSE {})
            \cup (IF FUZZY_AVAILABLE /\ Similarity(name) > 70
                  THEN {Similarity(name)} ELSE {}))

\* C25: the tool-name stage returns the best-scoring tool: its confidence is
\* the maximum over the registered tools of the scores 0.8 (name contained in
\* the input), 0.6 (a keyword contained) and the partial similarity to name or
\* description where above 0.7; so a tool matched by name is chosen over one
\* matched only by a keyword whatever the order of registration, and the stage
\* yields confidence 0.0 and no tool when nothing scores.
C25_BestScoringToolWins ==
    last.op = "match_tools" =>
        LET best == Max({0} \cup {Score(n) : n \in DOMAIN tools})
        IN /\ last.result.confidence = best
           /\ best > 0 =>
                  \E n \in DOMAIN tools :
                      /\ Score(n) = best
                      /\ last.result.tool_name = Some(n)
           /\ best = 0 =>
                  /\ last.result.tool_name = Nothing
                  /\ last.result = UnknownCommand
           /\ \A a, b \in DOMAIN tools :
                  NameContained(b) /\ Score(a) = 60 /\ ~NameContained(a)
                      => last.result.tool_name # Some(a)

\* The tool registered first is matched by a keyword only and the one
\* registered after it by its name, with no similarity scoring: the second
\* is returned with confidence 0.8.
C25_Witness ==
    /\ last.op = "match_tools"
    /\ last.command = "calc zip"
    /\ ~FUZZY_AVAILABLE
    /\ tool_order = <<"calculator", "zip">>
    /\ Score("calculator") = 60
    /\ NameContained("zip")
    /\ last.result.tool_name = Some("zip")
    /\ last.result.confidence = 80

----------------------------------------------------------------------------
(* Command Resolver: properties of the parameter inference                 *)

\* The first element of the list entity key, as an Optional
FirstOf(entities, key) ==
    IF has_key(entities, key) /\ get_item(entities, key) # <<>>
    THEN Some(get_item(entities, key)[1]) ELSE Nothing

\* The entity key itself, as an Optional
EntityOf(entities, key) ==
    IF has_key(entities, key) THEN Some(get_item(entities, key)) ELSE Nothing

\* What each category offers a parameter whose name indicates it: the set of
\* <<word of the name, value offered>>
Offers(entities) ==
    {<<"url", FirstOf(entities, "urls")>>}
    \cup {<<w, IF FirstOf(entities, "file_paths") # Nothing
               THEN FirstOf(entities, "file_paths")
               ELSE EntityOf(entities, "file")>> : w \in {"path", "file"}}
    \cup {<<w, IF EntityOf(entities, "text") # Nothing
               THEN EntityOf(entities, "text")
               ELSE FirstOf(entities, "quoted_strings")>> : w \in {"text", "message"}}
    \cup {<<w, FirstOf(entities, "numbers")>> : w \in {"number", "count"}}

\* The offers made to the parameter name: those of the words it contains
\* that have a value
OffersTo(name, entities) ==
    {o \in Offers(entities) : Contains(lower(name), o[1]) /\ o[2] # Nothing}

\* C26: when resolution comes from the tool-name stage, the parameters hold
\* only names the matched tool declares, and each is filled from the entity
\* category its name indicates: a name containing 'url' takes the first of
\* urls, one containing 'path' or 'file' the first of file_paths (or the file
\* entity), one containing 'text' or 'message' the text entity or the first
\* quoted string, one containing 'number' or 'count' the first of numbers; a
\* parameter with no matching entity is omitted.
C26_FilledByNamedCategory ==
    last.op = "infer" /\ last.result.tool_name # Nothing =>
        LET declared == SeqToSet(metadata(tools[last.result.tool_name[1]]).parameters)
            parameters == last.result.parameters[1]
        IN /\ \A i \in 1..Len(parameters) : parameters[i].k \in declared
           /\ \A name \in declared :
                  /\ OffersTo(name, last.result.entities) = {}
                         => ~has_key(parameters, name)
                  /\ \A o \in OffersTo(name, last.result.entities) :
                         /\ has_key(parameters, name)
                         /\ Some(get_item(parameters, name)) = o[2]

----------------------------------------------------------------------------
(* Command history: properties                                             *)

\* C10: the history never holds more than 100 entries, the insertion that
\* would make it 101 leaves exactly the 50 most recently remembered ones,
\* and the entries are in insertion order, oldest first.
C10_HistoryBoundedAndOrdered ==
    /\ Len(command_history) <= HistoryCap
    /\ \A i \in 1..(Len(command_history) - 1) :
          command_history[i].n < command_history[i + 1].n
    /\ (last.op = "remember"
          => command_history[Len(command_history)].n = remembered)
    /\ (last.op = "remember" /\ last.len_before = HistoryCap
          => command_history =
                [i \in 1..HistoryKeep |-> [n |-> remembered - HistoryKeep + i]])

\* The insertion past the cap has just happened.
C10_Witness ==
    /\ last.op = "remember"
    /\ last.len_before = HistoryCap
    /\ Len(command_history) = HistoryKeep

\* C22: history(limit) returns the last min(limit, current length)
\* remembered entries in insertion order, the most recent last, for every
\* limit >= 0, and never more than limit entries.
C22_LastEntriesUpToLimit ==
    last.op = "history" =>
        LET n == Min({last.limit, Len(command_history)})
        IN /\ last.result = SubSeq(command_history,
                                   Len(command_history) - n + 1, Len(command_history))
           /\ Len(last.result) <= last.limit

====
